---------------------------- MODULE Spec2Model ----------------------------
(***************************************************************************)
(* A model of node-deps-watcher: the package-manager detector             *)
(* (src/src/PackageManagerDetector.ts) and the dependency checker         *)
(* (src/src/DependencyChecker.ts).                                        *)
(*                                                                         *)
(* Text is modelled as a sequence of one-character strings                *)
(* ("^1.2.0" is <<"^","1",".","2",".","0">>); a package name is a         *)
(* sequence of tokens (<<"a">>).  A JavaScript object is the sequence of  *)
(* its own <<key, value>> entries in insertion order, read through        *)
(* Object.prototype as obj[key] is in JavaScript.                         *)
(***************************************************************************)
EXTENDS Integers, Sequences, FiniteSets, TLC

VARIABLES
    op,               \* the operation the caller invoked: "detect", "list", "check"
    pc,               \* position of the running operation
    preferred,        \* configuration value nodeDepsWatcher.preferredPackageManager
    lockFiles,        \* names of the files present in the workspace directory
    available,        \* managers whose `<name> --version` exits with status 0
    pmIndex,          \* index of the for-loop over packageManagers
    lockTested,       \* history: lock files tested with fs.existsSync, in order
    probed,           \* history: managers probed with `--version`, in order
    detected,         \* value returned by detectPackageManager
    manager,          \* packageManager argument of getInstalledPackages
    listRun,          \* history: what each execution of the list command did
    listCalls,        \* history: forms of the list command executed, in order
    commandOutput,    \* local commandOutput of getInstalledPackages
    packages,         \* value returned by getInstalledPackages
    manifest,         \* package.json of the workspace
    requiredDependencies, \* local requiredDependencies of checkDependencies
    result,           \* the DependencyCheckResult under construction / returned
    raised,           \* "" or the error the operation rejected with
    argRequired,      \* argument `required` of isVersionCompatible
    argInstalled,     \* argument `installed` of isVersionCompatible
    compatible,       \* value returned by isVersionCompatible, as a list
    deleteFlag,       \* configuration value deleteNodeModulesOnCleanInstall
    nodeModules,      \* TRUE while the directory node_modules exists
    removal,          \* fs.rm of node_modules: "none", "started", "done", "failed"
    pmInfo,           \* value returned by getPackageManagerInfo
    proc,             \* the subprocess of executeCommand: "none", "running", "exited"
    exitCode,         \* the code of the subprocess's 'close' event
    executed,         \* history: commands passed to exec by executeCommand
    output,           \* what executeCommand appended to the output channel
    settled,          \* history: settlements of executeCommand's promise
    gitDir,           \* TRUE while the directory .git exists
    head,             \* the file .git/HEAD: missing, unreadable or its content
    currentBranch,    \* GitMonitor.currentBranch
    watchers,         \* "unset" before the constructor, then "none" or "created"
    initialBranch,    \* the branch setupGitMonitoring logged as `Initial branch`
    timers,           \* number of pending setTimeout callbacks
    fired,            \* history: names passed to branchChangeEmitter.fire
    lastCheck,        \* the last checkBranchChange: what it found and what it read
    disposed,         \* TRUE once GitMonitor.dispose() has been called
    extensionFile,    \* which extension.ts is built: current or earlier
    workspaceFolders, \* TRUE when vscode.workspace.workspaceFolders is defined
    activated,        \* TRUE once activate() has run
    autoCheckOnBranchSwitch, \* configuration value of that name
    autoCheckOnFileChange,   \* configuration value of that name
    runs              \* the invocations of the command functions, in order

detVars  == <<preferred, lockFiles, available, pmIndex, lockTested, probed, detected>>
listVars == <<manager, listRun, listCalls, commandOutput, packages>>
chkVars  == <<manifest, requiredDependencies, result>>
coreVars == <<op, pc, detVars, listVars, chkVars, raised>>
cmpVars  == <<argRequired, argInstalled, compatible>>
instVars == <<deleteFlag, nodeModules, removal, pmInfo, proc, exitCode,
              executed, output, settled>>
gitVars  == <<gitDir, head, currentBranch, watchers, initialBranch, timers,
              fired, lastCheck, disposed>>
\* the variables of the components that the detector and the checker leave alone
extVars  == <<extensionFile, workspaceFolders, activated,
              autoCheckOnBranchSwitch, autoCheckOnFileChange, runs>>
otherVars == <<cmpVars, instVars, gitVars, extVars>>
vars     == <<coreVars, otherVars>>

---------------------------------------------------------------------------
(* Bounds of the model *)

\* largest number of entries declared in package.json (both sections together)
MaxDeclared == 2
\* largest number of entries in the output of a list command
MaxListed == 1
\* largest major, minor or patch number of the versions compared (9 is added)
MaxPart == 2
\* largest number of chunks a subprocess writes before it closes
MaxChunks == 1
\* largest number of debounce timers pending at one time
MaxTimers == 1
\* number of branch changes emitted after which HEAD is no longer rewritten
MaxEmits == 2

---------------------------------------------------------------------------
(* JavaScript values *)

\* the value `undefined`, as a template literal prints it
Undefined == <<"undefined">>
\* Object.prototype.constructor, as a template literal prints it
ObjectCtor == <<"function Object() { [native code] }">>
\* the own-property names of Object.prototype that are valid package names
ObjectPrototypeKeys == {<<"constructor">>}

EmptyObject == <<>>

ObjKeys(o) == [i \in 1..Len(o) |-> o[i][1]]

HasOwn(o, k) == \E i \in 1..Len(o) : o[i][1] = k

\* the value of the own property k
OwnValue(o, k) == o[CHOOSE i \in 1..Len(o) : o[i][1] = k][2]

\* obj[k]: the own property, else the inherited one, else undefined
ObjGet(o, k) ==
    IF HasOwn(o, k) THEN OwnValue(o, k)
    ELSE IF k \in ObjectPrototypeKeys THEN ObjectCtor
    ELSE Undefined

\* obj[k] = v: an existing key keeps its position, a new key is appended
ObjSet(o, k, v) ==
    IF HasOwn(o, k)
    THEN [i \in 1..Len(o) |-> IF o[i][1] = k THEN <<k, v>> ELSE o[i]]
    ELSE Append(o, <<k, v>>)

\* JavaScript truthiness of a string-or-undefined-or-function value
Truthy(v) == v # Undefined /\ v # <<>>

IsString(v) == v # Undefined /\ v # ObjectCtor

StartsWith(s, p) == Len(s) >= Len(p) /\ SubSeq(s, 1, Len(p)) = p

---------------------------------------------------------------------------
(* Errors: a rejected promise reaches the caller of the operation, except  *)
(* inside checkDependencies, whose catch block turns it into an errors     *)
(* entry of the result                                                     *)

NewResult ==
    [isValid |-> TRUE, missingPackages |-> <<>>, extraPackages |-> <<>>,
     outdatedPackages |-> <<>>, errors |-> <<>>]

\* the catch block of checkDependencies
Caught(res, e) ==
    [res EXCEPT !.errors = Append(@, <<"Failed to check dependencies: ", e>>),
                !.isValid = FALSE]

\* mutant: the exception leaves checkDependencies as it leaves the others
Raise_Escapes(e) ==
    /\ pc' = "done"
    /\ raised' = e
    /\ result' = result

\* `throw e` (a rejected await) in the operation that is running
Raise(e) ==
    /\ pc' = "done"
    /\ IF op = "check"
       THEN result' = Caught(result, e) /\ raised' = raised
       ELSE raised' = e /\ result' = result

---------------------------------------------------------------------------
(* PackageManagerDetector: the profiles *)

\* mutant: the profiles in another order, npm first
packageManagers_NpmFirst == <<
    [name |-> "npm", lockFile |-> "package-lock.json",
     cleanInstallCommand |-> "npm ci",
     listCommand |-> "npm list --depth=0 --silent --json"],
    [name |-> "pnpm", lockFile |-> "pnpm-lock.yaml",
     cleanInstallCommand |-> "pnpm install --frozen-lockfile",
     listCommand |-> "pnpm list --depth=0 --silent --json"],
    [name |-> "yarn", lockFile |-> "yarn.lock",
     cleanInstallCommand |-> "yarn install --frozen-lockfile",
     listCommand |-> "yarn list --depth=0 --silent --json"] >>

\* packageManagers, in the order of the array literal
packageManagers == <<
    [name |-> "pnpm", lockFile |-> "pnpm-lock.yaml",
     cleanInstallCommand |-> "pnpm install --frozen-lockfile",
     listCommand |-> "pnpm list --depth=0 --silent --json"],
    [name |-> "yarn", lockFile |-> "yarn.lock",
     cleanInstallCommand |-> "yarn install --frozen-lockfile",
     listCommand |-> "yarn list --depth=0 --silent --json"],
    [name |-> "npm", lockFile |-> "package-lock.json",
     cleanInstallCommand |-> "npm ci",
     listCommand |-> "npm list --depth=0 --silent --json"] >>

PMNames == {packageManagers[i].name : i \in 1..Len(packageManagers)}
LockFileNames == {packageManagers[i].lockFile : i \in 1..Len(packageManagers)}

\* values the preferredPackageManager setting can hold: the enum of
\* package.json, and a value written by hand into settings.json
Preferences == {"auto", "npm", "yarn", "pnpm", "bun"}

NoName == ""

\* no profile: what find() gives when no element matches
NoProfile == [name |-> NoName, lockFile |-> "", cleanInstallCommand |-> "",
              listCommand |-> ""]


---------------------------------------------------------------------------
(* PackageManagerDetector.detectPackageManager *)

\* `return name` of detectPackageManager: checkDependencies goes on to
\* getInstalledPackages(workspacePath, name), any other caller is done
DetectReturn(name) ==
    /\ detected' = name
    /\ manager' = IF op = "check" THEN name ELSE manager
    /\ pc' = IF op = "check" THEN "lst_first" ELSE "done"

\* mutant: the preference is honoured only where no lock file is found
DetectConfig_LockFileFirst ==
    /\ pc = "det_config"
    /\ IF preferred # "auto" /\ lockFiles = {}
       THEN DetectReturn(preferred) /\ UNCHANGED pmIndex
       ELSE pc' = "det_lock" /\ pmIndex' = 1 /\ UNCHANGED <<detected, manager>>
    /\ UNCHANGED otherVars
    /\ UNCHANGED <<op, preferred, lockFiles, available, lockTested, probed,
                   listRun, listCalls, commandOutput, packages, chkVars, raised>>

\* reading the setting; a preference other than "auto" is returned as it is
DetectConfig ==
    /\ pc = "det_config"
    /\ IF preferred # "auto"
       THEN DetectReturn(preferred) /\ UNCHANGED pmIndex
       ELSE pc' = "det_lock" /\ pmIndex' = 1 /\ UNCHANGED <<detected, manager>>
    /\ UNCHANGED otherVars
    /\ UNCHANGED <<op, preferred, lockFiles, available, lockTested, probed,
                   listRun, listCalls, commandOutput, packages, chkVars, raised>>

\* one iteration of the loop over the lock files
DetectLockFile ==
    /\ pc = "det_lock"
    /\ lockTested' = Append(lockTested, packageManagers[pmIndex].lockFile)
    /\ IF packageManagers[pmIndex].lockFile \in lockFiles
       THEN DetectReturn(packageManagers[pmIndex].name) /\ UNCHANGED pmIndex
       ELSE /\ IF pmIndex < Len(packageManagers)
               THEN pc' = "det_lock" /\ pmIndex' = pmIndex + 1
               ELSE pc' = "det_probe" /\ pmIndex' = 1
            /\ UNCHANGED <<detected, manager>>
    /\ UNCHANGED otherVars
    /\ UNCHANGED <<op, preferred, lockFiles, available, probed,
                   listRun, listCalls, commandOutput, packages, chkVars, raised>>

\* mutant: the first failed probe ends the loop
DetectProbe_GivesUp ==
    /\ pc = "det_probe"
    /\ probed' = Append(probed, packageManagers[pmIndex].name)
    /\ IF packageManagers[pmIndex].name \in available
       THEN DetectReturn(packageManagers[pmIndex].name)
       ELSE pc' = "det_default" /\ UNCHANGED <<detected, manager>>
    /\ UNCHANGED otherVars
    /\ UNCHANGED <<op, preferred, lockFiles, available, pmIndex, lockTested,
                   listRun, listCalls, commandOutput, packages, chkVars, raised>>

\* mutant: the rejection of a failed probe is not caught
DetectProbe_Throws ==
    /\ pc = "det_probe"
    /\ probed' = Append(probed, packageManagers[pmIndex].name)
    /\ IF packageManagers[pmIndex].name \in available
       THEN DetectReturn(packageManagers[pmIndex].name) /\ UNCHANGED <<result, raised>>
       ELSE Raise("Command failed") /\ UNCHANGED <<detected, manager>>
    /\ UNCHANGED otherVars
    /\ UNCHANGED <<op, preferred, lockFiles, available, pmIndex, lockTested,
                   listRun, listCalls, commandOutput, packages,
                   manifest, requiredDependencies>>

\* one iteration of the loop over the executables: `<name> --version` is
\* awaited; its rejection is caught and logged, and the loop goes on
DetectProbe ==
    /\ pc = "det_probe"
    /\ probed' = Append(probed, packageManagers[pmIndex].name)
    /\ IF packageManagers[pmIndex].name \in available
       THEN DetectReturn(packageManagers[pmIndex].name) /\ UNCHANGED pmIndex
       ELSE /\ IF pmIndex < Len(packageManagers)
               THEN pc' = "det_probe" /\ pmIndex' = pmIndex + 1
               ELSE pc' = "det_default" /\ UNCHANGED pmIndex
            /\ UNCHANGED <<detected, manager>>
    /\ UNCHANGED otherVars
    /\ UNCHANGED <<op, preferred, lockFiles, available, lockTested,
                   listRun, listCalls, commandOutput, packages, chkVars, raised>>

\* no lock file and no executable: the default
DetectDefault ==
    /\ pc = "det_default"
    /\ DetectReturn("npm")
    /\ UNCHANGED otherVars
    /\ UNCHANGED <<op, preferred, lockFiles, available, pmIndex, lockTested, probed,
                   listRun, listCalls, commandOutput, packages, chkVars, raised>>

---------------------------------------------------------------------------
(* PackageManagerDetector.getInstalledPackages *)

\* What a list command prints, as JSON.parse sees it:
\*   "empty"   nothing at all          "garbage"  text that is not JSON
\*   "null"    the JSON value null
\*   "npm"     {"dependencies": {name: {"version": v}, ...}}   (npm, pnpm)
\*   "yarn"    {"data": {"trees": [{"name": "name@version"}, ...]}}
EmptyOut   == [shape |-> "empty", deps |-> <<>>, trees |-> <<>>]
GarbageOut == [shape |-> "garbage", deps |-> <<>>, trees |-> <<>>]
NullOut    == [shape |-> "null", deps |-> <<>>, trees |-> <<>>]
NpmOut(d)  == [shape |-> "npm", deps |-> d, trees |-> <<>>]
YarnOut(t) == [shape |-> "yarn", deps |-> <<>>, trees |-> t]

\* JSON.parse(commandOutput) throws
JsonThrows(out) == out.shape \in {"empty", "garbage"}

\* position of the last "@" of s, 0 if there is none
LastAt(s) ==
    IF \E i \in 1..Len(s) : s[i] = "@"
    THEN CHOOSE i \in 1..Len(s) :
            s[i] = "@" /\ \A j \in (i+1)..Len(s) : s[j] # "@"
    ELSE 0

\* position of the first "@" of s, 0 if there is none
FirstAt(s) ==
    IF \E i \in 1..Len(s) : s[i] = "@"
    THEN CHOOSE i \in 1..Len(s) :
            s[i] = "@" /\ \A j \in 1..(i-1) : s[j] # "@"
    ELSE 0

\* mutant: the entry is split at its first "@"
MatchNameAtVersion_FirstAt(s) ==
    IF FirstAt(s) = 0 \/ FirstAt(s) = Len(s) THEN <<>>
    ELSE <<SubSeq(s, 1, FirstAt(s) - 1), SubSeq(s, FirstAt(s) + 1, Len(s))>>

\* tree.name.match(/^(.*)@([^@]+)$/): <<name, version>>, or <<>> for no match
MatchNameAtVersion(s) ==
    IF LastAt(s) = 0 \/ LastAt(s) = Len(s) THEN <<>>
    ELSE <<SubSeq(s, 1, LastAt(s) - 1), SubSeq(s, LastAt(s) + 1, Len(s))>>

\* result.data.trees.forEach(...) from entry i on
RECURSIVE ParseTrees(_, _, _)
ParseTrees(trees, i, pk) ==
    IF i > Len(trees) THEN pk
    ELSE ParseTrees(trees, i + 1,
            IF MatchNameAtVersion(trees[i]) # <<>>
            THEN ObjSet(pk, MatchNameAtVersion(trees[i])[1],
                            MatchNameAtVersion(trees[i])[2])
            ELSE pk)

\* Object.keys(result.dependencies).forEach(...) from entry i on
RECURSIVE ParseDeps(_, _, _)
ParseDeps(deps, i, pk) ==
    IF i > Len(deps) THEN pk
    ELSE ParseDeps(deps, i + 1,
            IF Truthy(deps[i][2]) THEN ObjSet(pk, deps[i][1], deps[i][2]) ELSE pk)

\* the try / catch / finally that parses commandOutput: whatever is thrown,
\* `finally { return packages }` returns what was collected
ParseInstalled(pm, out) ==
    IF JsonThrows(out) \/ out.shape = "null" THEN EmptyObject
    ELSE IF pm = "yarn"
         THEN (IF out.shape = "yarn" THEN ParseTrees(out.trees, 1, EmptyObject)
               ELSE EmptyObject)
    ELSE IF pm \in {"pnpm", "npm"}
         THEN (IF out.shape = "npm" THEN ParseDeps(out.deps, 1, EmptyObject)
               ELSE EmptyObject)
    ELSE EmptyObject

\* stdout of `output=$(<list> 2>&1) || echo "$output"`: what the list command
\* printed when it fails, nothing when it succeeds
ShellFormStdout(exit, out) == IF exit # 0 THEN out ELSE EmptyOut

---------------------------------------------------------------------------
(* The inputs the model draws from *)

NameA    == <<"a">>
NameB    == <<"b">>
NameCtor == <<"constructor">>
PkgNames == {NameA, NameB, NameCtor}
\* a scoped name, "@scope/pkg", as yarn lists it
NameScoped == <<"@", "scope/pkg">>
YarnNames == PkgNames \cup {NameScoped}

V190 == <<"1", ".", "9", ".", "0">>
V200 == <<"2", ".", "0", ".", "0">>
ListedVersions == {V190, V200}

ReqCaret120 == <<"^", "1", ".", "2", ".", "0">>
ReqEmpty    == <<>>
ReqFile     == <<"f", "i", "l", "e", ":", ".", "/", "x">>
Requirements == {ReqCaret120, ReqEmpty, ReqFile}

SeqsUpTo(S, n) == UNION {[1..k -> S] : k \in 0..n}

\* the objects with at most n entries, keys in K and values in V
Objects(K, V, n) ==
    {o \in SeqsUpTo(K \X V, n) :
        \A i, j \in 1..Len(o) : i # j => o[i][1] # o[j][1]}

TreeEntry(n, v) == n \o <<"@">> \o v

\* the "version" field of an entry of npm's listing may be missing
NpmOutputs ==
    {NpmOut(d) : d \in Objects(PkgNames, ListedVersions \cup {Undefined}, MaxListed)}
YarnOutputs ==
    {YarnOut(t) :
        t \in SeqsUpTo({TreeEntry(n, v) : n \in YarnNames, v \in ListedVersions},
                       MaxListed)}
ListOutputs == {EmptyOut, GarbageOut, NullOut} \cup NpmOutputs \cup YarnOutputs

\* the stdout of a first attempt that exits non-zero: execAsync rejects and
\* the code never looks at it
DroppedOut == [shape |-> "dropped", deps |-> <<>>, trees |-> <<>>]

\* the first execution: exit status and, when it is 0, stdout
FirstOutcomes ==
    {[form |-> "plain", shellOk |-> TRUE, exit |-> 0, out |-> o] : o \in ListOutputs}
    \cup {[form |-> "plain", shellOk |-> TRUE, exit |-> 1, out |-> DroppedOut]}

\* the second execution: the shell form cannot be run or is killed
\* (shellOk = FALSE; cmd.exe, a spawn error, a full buffer), or it runs the
\* list command, which exits with `exit` after printing `out`
RetryOutcomes ==
    {[form |-> "shell", shellOk |-> FALSE, exit |-> 1, out |-> DroppedOut]}
    \cup {[form |-> "shell", shellOk |-> TRUE, exit |-> e, out |-> o] :
            e \in {0, 1}, o \in ListOutputs}

---------------------------------------------------------------------------
(* semver.satisfies(version, range), for versions MAJOR.MINOR.PATCH and    *)
(* ranges made of an optional ^ or ~ and a full or partial version         *)

Digits == {"0", "1", "2", "3", "4", "5", "6", "7", "8", "9"}

DigitVal(c) ==
    CASE c = "0" -> 0 [] c = "1" -> 1 [] c = "2" -> 2 [] c = "3" -> 3
      [] c = "4" -> 4 [] c = "5" -> 5 [] c = "6" -> 6 [] c = "7" -> 7
      [] c = "8" -> 8 [] c = "9" -> 9

\* NUMERICIDENTIFIER: 0|[1-9]\d*
IsNumericId(p) ==
    /\ p # <<>>
    /\ \A i \in 1..Len(p) : p[i] \in Digits
    /\ (Len(p) > 1 => p[1] # "0")

RECURSIVE NumVal(_)
NumVal(p) ==
    IF p = <<>> THEN 0
    ELSE 10 * NumVal(SubSeq(p, 1, Len(p) - 1)) + DigitVal(p[Len(p)])

FirstDot(s) ==
    IF \E i \in 1..Len(s) : s[i] = "."
    THEN CHOOSE i \in 1..Len(s) : s[i] = "." /\ \A j \in 1..(i-1) : s[j] # "."
    ELSE 0

\* s.split('.')
RECURSIVE SplitDots(_)
SplitDots(s) ==
    IF FirstDot(s) = 0 THEN <<s>>
    ELSE <<SubSeq(s, 1, FirstDot(s) - 1)>>
            \o SplitDots(SubSeq(s, FirstDot(s) + 1, Len(s)))

\* new SemVer(version): <<major, minor, patch>>, or <<>> when it throws
ParseVersion(s) ==
    LET body  == IF StartsWith(s, <<"v">>) THEN Tail(s) ELSE s
        parts == SplitDots(body)
    IN  IF Len(parts) = 3 /\ \A i \in 1..3 : IsNumericId(parts[i])
        THEN <<NumVal(parts[1]), NumVal(parts[2]), NumVal(parts[3])>>
        ELSE <<>>

VLt(a, b) ==
    \/ a[1] < b[1]
    \/ a[1] = b[1] /\ a[2] < b[2]
    \/ a[1] = b[1] /\ a[2] = b[2] /\ a[3] < b[3]

\* XRANGEIDENTIFIER that is a wildcard
IsXId(p) == p \in {<<"x">>, <<"X">>, <<"*">>}

RECURSIVE StripVs(_)
StripVs(s) == IF s # <<>> /\ s[1] = "v" THEN StripVs(Tail(s)) ELSE s

\* XRANGEPLAIN: <<M, m, p>> with -1 for a wildcard or a part left out, or <<>>
Partial(body) ==
    LET parts == SplitDots(StripVs(body))
    IN  IF Len(parts) <= 3 /\ \A i \in 1..Len(parts) :
                                  IsNumericId(parts[i]) \/ IsXId(parts[i])
        THEN [i \in 1..3 |->
                IF i <= Len(parts) /\ IsNumericId(parts[i])
                THEN NumVal(parts[i]) ELSE -1]
        ELSE <<>>

InvalidRange == [ok |-> FALSE, any |-> FALSE, lo |-> <<0, 0, 0>>, hi |-> <<0, 0, 0>>]
AnyRange     == [ok |-> TRUE, any |-> TRUE, lo |-> <<0, 0, 0>>, hi |-> <<0, 0, 0>>]
Between(l, h) == [ok |-> TRUE, any |-> FALSE, lo |-> l, hi |-> h]

\* new Range(range): replaceCarets, replaceTildes, replaceXRanges and the
\* comparator check; the range is lo <= v < hi
ParseRange(r) ==
    IF r = <<>> THEN AnyRange
    ELSE
    LET opc  == IF r[1] \in {"^", "~"} THEN r[1] ELSE ""
        body == IF opc = "" THEN r ELSE Tail(r)
        c    == Partial(body)
    IN  IF c = <<>> THEN InvalidRange
        ELSE IF c[1] = -1 THEN AnyRange
        ELSE IF c[2] = -1 THEN Between(<<c[1], 0, 0>>, <<c[1] + 1, 0, 0>>)
        ELSE IF c[3] = -1 THEN
            (IF opc = "^" /\ c[1] # 0
             THEN Between(<<c[1], c[2], 0>>, <<c[1] + 1, 0, 0>>)
             ELSE Between(<<c[1], c[2], 0>>, <<c[1], c[2] + 1, 0>>))
        ELSE IF opc = "^" THEN
            (IF c[1] # 0 THEN Between(c, <<c[1] + 1, 0, 0>>)
             ELSE IF c[2] # 0 THEN Between(c, <<0, c[2] + 1, 0>>)
             ELSE Between(c, <<0, 0, c[3] + 1>>))
        ELSE IF opc = "~" THEN Between(c, <<c[1], c[2] + 1, 0>>)
        ELSE IF StartsWith(body, <<"v", "v">>) THEN InvalidRange
        ELSE Between(c, <<c[1], c[2], c[3] + 1>>)

\* semver.satisfies: false when the range or the version does not parse
Satisfies(version, range) ==
    LET v  == ParseVersion(version)
        rg == ParseRange(range)
    IN  /\ rg.ok
        /\ v # <<>>
        /\ (rg.any \/ (~VLt(v, rg.lo) /\ VLt(v, rg.hi)))

---------------------------------------------------------------------------
(* DependencyChecker.isVersionCompatible *)

FilePrefix == <<"f", "i", "l", "e", ":">>
GitPrefix  == <<"g", "i", "t", "+">>

\* s.replace(/^[\^~]/, '')
StripRangeOperator(s) == IF s # <<>> /\ s[1] \in {"^", "~"} THEN Tail(s) ELSE s
\* s.replace(/^v/, '')
StripLeadingV(s) == IF s # <<>> /\ s[1] = "v" THEN Tail(s) ELSE s

\* mutant: the operator that was stripped is not put back
isVersionCompatible_OperatorDropped(required, installed) ==
    IF StartsWith(required, FilePrefix) \/ StartsWith(required, GitPrefix) THEN TRUE
    ELSE IF ~IsString(installed) THEN FALSE
    ELSE Satisfies(StripLeadingV(installed), StripRangeOperator(required))

\* mutant: local and git requirements are compared like any other
isVersionCompatible_NoLocalSkip(required, installed) ==
    IF ~IsString(installed) THEN FALSE
    ELSE IF StartsWith(required, <<"^">>)
    THEN Satisfies(StripLeadingV(installed), <<"^">> \o StripRangeOperator(required))
    ELSE IF StartsWith(required, <<"~">>)
    THEN Satisfies(StripLeadingV(installed), <<"~">> \o StripRangeOperator(required))
    ELSE Satisfies(StripLeadingV(installed), StripRangeOperator(required))

\* installed.replace of a value that is no string throws a TypeError, which
\* the catch block turns into `false`
isVersionCompatible(required, installed) ==
    IF StartsWith(required, FilePrefix) \/ StartsWith(required, GitPrefix) THEN TRUE
    ELSE IF ~IsString(installed) THEN FALSE
    ELSE LET cleanRequired  == StripRangeOperator(required)
             cleanInstalled == StripLeadingV(installed)
         IN  IF StartsWith(required, <<"^">>)
             THEN Satisfies(cleanInstalled, <<"^">> \o cleanRequired)
             ELSE IF StartsWith(required, <<"~">>)
             THEN Satisfies(cleanInstalled, <<"~">> \o cleanRequired)
             ELSE Satisfies(cleanInstalled, cleanRequired)

---------------------------------------------------------------------------
(* DependencyChecker.checkDependencies *)

\* {...target, ...source} from entry i of source on
RECURSIVE Spread(_, _, _)
Spread(target, source, i) ==
    IF i > Len(source) THEN target
    ELSE Spread(ObjSet(target, source[i][1], source[i][2]), source, i + 1)

\* requiredDependencies = {...packageJson.dependencies, ...packageJson.devDependencies}
MergeDependencies(m) ==
    Spread(Spread(EmptyObject, m.dependencies, 1), m.devDependencies, 1)

\* `${name}@${installedVersion} (required: ${version})`
OutdatedEntry(name, installedVersion, version) ==
    name \o <<"@">> \o installedVersion \o <<" (required: ">> \o version \o <<")">>

\* mutant: an outdated package does not make the result invalid
CheckEntry_OutdatedStaysValid(res, name, version, installedPackages) ==
    IF ~Truthy(ObjGet(installedPackages, name))
    THEN [res EXCEPT !.missingPackages = Append(@, name), !.isValid = FALSE]
    ELSE IF ~isVersionCompatible(version, ObjGet(installedPackages, name))
    THEN [res EXCEPT !.outdatedPackages =
                        Append(@, OutdatedEntry(name, ObjGet(installedPackages, name),
                                                version))]
    ELSE res

\* the body of the loop over Object.entries(requiredDependencies)
CheckEntry(res, name, version, installedPackages) ==
    IF ~Truthy(ObjGet(installedPackages, name))
    THEN [res EXCEPT !.missingPackages = Append(@, name), !.isValid = FALSE]
    ELSE IF ~isVersionCompatible(version, ObjGet(installedPackages, name))
    THEN [res EXCEPT !.outdatedPackages =
                        Append(@, OutdatedEntry(name, ObjGet(installedPackages, name),
                                                version)),
                     !.isValid = FALSE]
    ELSE res

RECURSIVE CheckDeclared(_, _, _, _)
CheckDeclared(res, declared, i, installedPackages) ==
    IF i > Len(declared) THEN res
    ELSE CheckDeclared(
            CheckEntry(res, declared[i][1], declared[i][2], installedPackages),
            declared, i + 1, installedPackages)

\* the body of the loop over Object.keys(installedPackages)
CheckExtraEntry(res, name, declared) ==
    IF ~Truthy(ObjGet(declared, name))
    THEN [res EXCEPT !.extraPackages = Append(@, name)]
    ELSE res

RECURSIVE CheckExtra(_, _, _, _)
CheckExtra(res, installedPackages, i, declared) ==
    IF i > Len(installedPackages) THEN res
    ELSE CheckExtra(CheckExtraEntry(res, installedPackages[i][1], declared),
                    installedPackages, i + 1, declared)

\* mutant: the missing manifest is reported but the check goes on
CheckManifest_NoEarlyReturn ==
    /\ pc = "chk_manifest"
    /\ IF manifest.state = "missing"
       THEN /\ result' = [result EXCEPT !.errors = Append(@, <<"package.json not found">>),
                                        !.isValid = FALSE]
            /\ pc' = "det_config"
            /\ UNCHANGED <<requiredDependencies, raised>>
       ELSE IF manifest.state = "unparseable"
       THEN Raise("SyntaxError") /\ UNCHANGED requiredDependencies
       ELSE /\ requiredDependencies' = MergeDependencies(manifest)
            /\ pc' = "det_config"
            /\ UNCHANGED <<result, raised>>
    /\ UNCHANGED otherVars
    /\ UNCHANGED <<op, detVars, listVars, manifest>>

\* the manifest is read: absent, unreadable as JSON, or merged
CheckManifest ==
    /\ pc = "chk_manifest"
    /\ IF manifest.state = "missing"
       THEN /\ result' = [result EXCEPT !.errors = Append(@, <<"package.json not found">>),
                                        !.isValid = FALSE]
            /\ pc' = "done"
            /\ UNCHANGED <<requiredDependencies, raised>>
       ELSE IF manifest.state = "unparseable"
       THEN Raise("SyntaxError") /\ UNCHANGED requiredDependencies
       ELSE /\ requiredDependencies' = MergeDependencies(manifest)
            /\ pc' = "det_config"
            /\ UNCHANGED <<result, raised>>
    /\ UNCHANGED otherVars
    /\ UNCHANGED <<op, detVars, listVars, manifest>>

\* the two loops of checkDependencies, run when getInstalledPackages returns
CompareDependencies(res, declared, installedPackages) ==
    CheckExtra(CheckDeclared(res, declared, 1, installedPackages),
               installedPackages, 1, declared)

---------------------------------------------------------------------------
(* getInstalledPackages, continued: the steps.  What follows the last      *)
(* awaited execution runs without another await: the parse, the return     *)
(* and, in checkDependencies, the comparison                               *)

\* `return packages`, and the rest of checkDependencies when it is the caller
ListReturn(pk) ==
    /\ packages' = pk
    /\ pc' = "done"
    /\ result' = IF op = "check"
                 THEN CompareDependencies(result, requiredDependencies, pk)
                 ELSE result
    /\ raised' = raised

\* mutant: a list command that fails is not run again
ListFirst_NoRetry ==
    /\ pc = "lst_first"
    /\ IF manager \notin PMNames
       THEN /\ Raise("Unsupported package manager")
            /\ UNCHANGED <<listRun, listCalls, commandOutput, packages>>
       ELSE /\ \E r \in FirstOutcomes :
                /\ listRun' = Append(listRun, r)
                /\ commandOutput' = IF r.exit = 0 THEN r.out ELSE EmptyOut
                /\ ListReturn(ParseInstalled(manager,
                                  IF r.exit = 0 THEN r.out ELSE EmptyOut))
            /\ listCalls' = Append(listCalls, "plain")
    /\ UNCHANGED otherVars
    /\ UNCHANGED <<op, detVars, manager, manifest, requiredDependencies>>

\* getPackageManagerInfo(packageManager), then the first execution of the
\* list command
ListFirst ==
    /\ pc = "lst_first"
    /\ IF manager \notin PMNames
       THEN /\ Raise("Unsupported package manager")
            /\ UNCHANGED <<listRun, listCalls, commandOutput, packages>>
       ELSE /\ \E r \in FirstOutcomes :
                /\ listRun' = Append(listRun, r)
                /\ IF r.exit = 0
                   THEN /\ commandOutput' = r.out
                        /\ ListReturn(ParseInstalled(manager, r.out))
                   ELSE /\ pc' = "lst_retry"
                        /\ UNCHANGED <<commandOutput, packages, result, raised>>
            /\ listCalls' = Append(listCalls, "plain")
    /\ UNCHANGED otherVars
    /\ UNCHANGED <<op, detVars, manager, manifest, requiredDependencies>>

\* mutant: the comparison is made before the failure of the second
\* execution is caught
ListRetry_ComparesThenFails ==
    /\ pc = "lst_retry"
    /\ listCalls' = Append(listCalls, "shell")
    /\ \E r \in RetryOutcomes :
        /\ listRun' = Append(listRun, r)
        /\ IF ~r.shellOk
           THEN /\ pc' = "done"
                /\ raised' = IF op = "check" THEN raised ELSE "Command failed"
                /\ result' = IF op = "check"
                             THEN Caught(CompareDependencies(result,
                                             requiredDependencies, EmptyObject),
                                         "Command failed")
                             ELSE result
                /\ UNCHANGED <<commandOutput, packages>>
           ELSE /\ commandOutput' = ShellFormStdout(r.exit, r.out)
                /\ ListReturn(ParseInstalled(manager, ShellFormStdout(r.exit, r.out)))
    /\ UNCHANGED otherVars
    /\ UNCHANGED <<op, detVars, manager, manifest, requiredDependencies>>

\* the catch block: the list command again, in the shell form, awaited
\* outside any try
ListRetry ==
    /\ pc = "lst_retry"
    /\ listCalls' = Append(listCalls, "shell")
    /\ \E r \in RetryOutcomes :
        /\ listRun' = Append(listRun, r)
        /\ IF ~r.shellOk
           THEN Raise("Command failed") /\ UNCHANGED <<commandOutput, packages>>
           ELSE /\ commandOutput' = ShellFormStdout(r.exit, r.out)
                /\ ListReturn(ParseInstalled(manager, ShellFormStdout(r.exit, r.out)))
    /\ UNCHANGED otherVars
    /\ UNCHANGED <<op, detVars, manager, manifest, requiredDependencies>>

---------------------------------------------------------------------------
(* The callers *)

CallDetect ==
    /\ pc = "idle"
    /\ op' = "detect"
    /\ pc' = "det_config"
    /\ UNCHANGED otherVars
    /\ UNCHANGED <<detVars, listVars, chkVars, raised>>

ManagerArguments == PMNames \cup {"bun"}

CallList ==
    /\ pc = "idle"
    /\ op' = "list"
    /\ pc' = "lst_first"
    /\ \E pm \in ManagerArguments : manager' = pm
    /\ UNCHANGED otherVars
    /\ UNCHANGED <<detVars, listRun, listCalls, commandOutput, packages, chkVars, raised>>

CallCheck ==
    /\ pc = "idle"
    /\ op' = "check"
    /\ pc' = "chk_manifest"
    /\ result' = NewResult
    /\ UNCHANGED otherVars
    /\ UNCHANGED <<detVars, listVars, manifest, requiredDependencies, raised>>

---------------------------------------------------------------------------
(* isVersionCompatible on its own: the requirements and installed versions *)
(* it is applied to                                                        *)

DigitChar(n) ==
    CASE n = 0 -> "0" [] n = 1 -> "1" [] n = 2 -> "2" [] n = 3 -> "3"
      [] n = 4 -> "4" [] n = 5 -> "5" [] n = 6 -> "6" [] n = 7 -> "7"
      [] n = 8 -> "8" [] n = 9 -> "9"

\* the decimal text of a number
RECURSIVE FormatNum(_)
FormatNum(n) ==
    IF n < 10 THEN <<DigitChar(n)>>
    ELSE FormatNum(n \div 10) \o <<DigitChar(n % 10)>>

\* "M.m.p"
FormatVersion(t) ==
    FormatNum(t[1]) \o <<".">> \o FormatNum(t[2]) \o <<".">> \o FormatNum(t[3])

VersionParts == (0..MaxPart) \cup {9}
Triples == VersionParts \X VersionParts \X VersionParts

ReqGit == <<"g", "i", "t", "+", "s", "s", "h">>
\* requirements that are no semantic version and no local or git marker
ReqLatest == <<"l", "a", "t", "e", "s", "t">>

\* requirements that name a repository or a local path in another way
ReqGithub == <<"g", "i", "t", "h", "u", "b", ":", "u", "/", "r">>
ReqLink   == <<"l", "i", "n", "k", ":", ".", "/", "x">>
ReqGitUrl == <<"g", "i", "t", ":", "/", "/", "h", "/", "r">>

RangeOperators == {<<>>, <<"^">>, <<"~">>}

CompatRequirements ==
    {o \o FormatVersion(t) : o \in RangeOperators, t \in Triples}
    \cup {ReqFile, ReqGit, ReqLatest, ReqGithub, ReqLink, ReqGitUrl}

\* what installedPackages[name] can be: a version, with or without a
\* leading v, another text, or the inherited Object function
CompatInstalled ==
    {v \o FormatVersion(t) : v \in {<<>>, <<"v">>}, t \in Triples}
    \cup {ReqLatest, <<"1", ".", "x">>, ObjectCtor}

\* isVersionCompatible(required, installed)
CallCompatible ==
    /\ pc = "idle"
    /\ op' = "compatible"
    /\ compatible' = <<isVersionCompatible(argRequired, argInstalled)>>
    /\ pc' = "done"
    /\ UNCHANGED <<detVars, listVars, chkVars, raised>>
    /\ UNCHANGED <<argRequired, argInstalled, instVars, gitVars,
                   extVars>>

\* the body of the loop over the declared entries, for the entry
\* (a, required) and the installed set {a: installed}
CallCheckEntry ==
    /\ pc = "idle"
    /\ IsString(argInstalled) /\ Truthy(argInstalled)
    /\ op' = "checkEntry"
    /\ requiredDependencies' = <<<<NameA, argRequired>>>>
    /\ packages' = <<<<NameA, argInstalled>>>>
    /\ result' = CheckEntry(NewResult, NameA, argRequired, <<<<NameA, argInstalled>>>>)
    /\ pc' = "done"
    /\ UNCHANGED <<detVars, manager, listRun, listCalls, commandOutput, manifest, raised>>
    /\ UNCHANGED otherVars

---------------------------------------------------------------------------
(* PackageManagerDetector.getPackageManagerInfo and executeCommand,        *)
(* DependencyChecker.cleanInstall                                          *)

\* mutant: a name without a profile gets the profile of npm
getPackageManagerInfo_DefaultsToNpm(name) ==
    IF \E i \in 1..Len(packageManagers) : packageManagers[i].name = name
    THEN packageManagers[CHOOSE i \in 1..Len(packageManagers) :
                            packageManagers[i].name = name]
    ELSE packageManagers[3]

\* packageManagers.find(p => p.name === name); NoProfile stands for the
\* `throw` that follows when nothing is found
getPackageManagerInfo(name) ==
    IF \E i \in 1..Len(packageManagers) : packageManagers[i].name = name
    THEN packageManagers[CHOOSE i \in 1..Len(packageManagers) :
                            packageManagers[i].name = name]
    ELSE NoProfile

\* the code of a 'close' event of a subprocess that a signal ended: null
ExitNull == -1
ExitCodes == {0, 1, 127, ExitNull}

\* `Command failed with code ${code}`
CommandFailed(code) ==
    CASE code = 1 -> "Command failed with code 1"
      [] code = 127 -> "Command failed with code 127"
      [] code = ExitNull -> "Command failed with code null"
      [] OTHER -> "Command failed with code 0"

\* exec(command, { cwd }) inside the promise executor of executeCommand
Spawn(command) ==
    /\ executed' = Append(executed, command)
    /\ proc' = "running"
    /\ pc' = "ex_wait"

\* getPackageManagerInfo(name), called on its own
CallInfo ==
    /\ pc = "idle"
    /\ op' = "info"
    /\ \E name \in ManagerArguments :
        /\ manager' = name
        /\ IF getPackageManagerInfo(name) = NoProfile
           THEN Raise("Unsupported package manager") /\ UNCHANGED pmInfo
           ELSE /\ pmInfo' = getPackageManagerInfo(name)
                /\ pc' = "done"
                /\ UNCHANGED <<result, raised>>
    /\ UNCHANGED <<detVars, listRun, listCalls, commandOutput, packages,
                   manifest, requiredDependencies, cmpVars, gitVars,
                   extVars>>
    /\ UNCHANGED <<deleteFlag, nodeModules, removal, proc, exitCode,
                   executed, output, settled>>

CallCleanInstall ==
    /\ pc = "idle"
    /\ op' = "cleanInstall"
    /\ pc' = "ci_start"
    /\ \E name \in ManagerArguments : manager' = name
    /\ UNCHANGED <<detVars, listRun, listCalls, commandOutput, packages,
                   chkVars, raised, otherVars>>

\* mutant: node_modules is removed whatever the setting says
CleanStart_DeletesAlways ==
    /\ pc = "ci_start"
    /\ IF getPackageManagerInfo(manager) = NoProfile
       THEN /\ Raise("Unsupported package manager")
            /\ UNCHANGED <<pmInfo, removal, proc, executed>>
       ELSE /\ pmInfo' = getPackageManagerInfo(manager)
            /\ IF nodeModules
               THEN removal' = "started" /\ pc' = "ci_rm" /\ UNCHANGED <<proc, executed>>
               ELSE /\ Spawn(getPackageManagerInfo(manager).cleanInstallCommand)
                    /\ UNCHANGED removal
            /\ UNCHANGED <<result, raised>>
    /\ UNCHANGED <<op, detVars, listVars, manifest, requiredDependencies,
                   cmpVars, gitVars,
                   extVars>>
    /\ UNCHANGED <<deleteFlag, nodeModules, exitCode, output, settled>>

\* cleanInstall up to its first await: the profile, the setting, and either
\* fs.rm of an existing node_modules or the clean-install command
CleanStart ==
    /\ pc = "ci_start"
    /\ IF getPackageManagerInfo(manager) = NoProfile
       THEN /\ Raise("Unsupported package manager")
            /\ UNCHANGED <<pmInfo, removal, proc, executed>>
       ELSE /\ pmInfo' = getPackageManagerInfo(manager)
            /\ IF deleteFlag /\ nodeModules
               THEN removal' = "started" /\ pc' = "ci_rm" /\ UNCHANGED <<proc, executed>>
               ELSE /\ Spawn(getPackageManagerInfo(manager).cleanInstallCommand)
                    /\ UNCHANGED removal
            /\ UNCHANGED <<result, raised>>
    /\ UNCHANGED <<op, detVars, listVars, manifest, requiredDependencies,
                   cmpVars, gitVars,
                   extVars>>
    /\ UNCHANGED <<deleteFlag, nodeModules, exitCode, output, settled>>

\* the callback of fs.rm: deleteDirectory resolves and the command is
\* started, or it rejects and cleanInstall rejects with it
CleanRemoved ==
    /\ pc = "ci_rm"
    /\ \E ok \in BOOLEAN :
        IF ok
        THEN /\ removal' = "done"
             /\ nodeModules' = FALSE
             /\ Spawn(pmInfo.cleanInstallCommand)
             /\ UNCHANGED <<result, raised>>
        ELSE /\ removal' = "failed"
             /\ Raise("rm failed")
             /\ UNCHANGED <<nodeModules, proc, executed>>
    /\ UNCHANGED <<op, detVars, listVars, manifest, requiredDependencies,
                   cmpVars, gitVars,
                   extVars>>
    /\ UNCHANGED <<deleteFlag, pmInfo, exitCode, output, settled>>

\* executeCommand(command, dir), called on its own
CallExecute ==
    /\ pc = "idle"
    /\ op' = "execute"
    /\ Spawn("npm ci")
    /\ UNCHANGED <<detVars, listVars, chkVars, raised, cmpVars, gitVars,
                   extVars>>
    /\ UNCHANGED <<deleteFlag, nodeModules, removal, pmInfo, exitCode, output, settled>>

\* a 'data' event of the subprocess's stdout or stderr
ExecData ==
    /\ pc = "ex_wait"
    /\ proc = "running"
    /\ Len(output) < MaxChunks
    /\ \E stream \in {"stdout", "stderr"} : output' = Append(output, stream)
    /\ UNCHANGED <<coreVars, cmpVars, gitVars, extVars>>
    /\ UNCHANGED <<deleteFlag, nodeModules, removal, pmInfo, proc, exitCode,
                   executed, settled>>

\* mutant: a command that fails is run a second time
ExecClose_Retries ==
    /\ pc = "ex_wait"
    /\ proc = "running"
    /\ \E code \in ExitCodes :
        IF code # 0 /\ Len(executed) < 2
        THEN /\ Spawn(executed[1])
             /\ UNCHANGED <<exitCode, settled, output, result, raised>>
        ELSE /\ proc' = "exited"
             /\ exitCode' = <<code>>
             /\ UNCHANGED executed
             /\ IF code = 0
                THEN /\ output' = Append(output, "Command completed successfully")
                     /\ settled' = Append(settled, "resolved")
                     /\ pc' = "done"
                     /\ UNCHANGED <<result, raised>>
                ELSE /\ output' = Append(output, CommandFailed(code))
                     /\ settled' = Append(settled, "rejected")
                     /\ Raise(CommandFailed(code))
    /\ UNCHANGED <<op, detVars, listVars, manifest, requiredDependencies,
                   cmpVars, gitVars,
                   extVars>>
    /\ UNCHANGED <<deleteFlag, nodeModules, removal, pmInfo>>

\* mutant: the promise is resolved whatever the code is
ExecClose_AlwaysResolves ==
    /\ pc = "ex_wait"
    /\ proc = "running"
    /\ \E code \in ExitCodes :
        /\ proc' = "exited"
        /\ exitCode' = <<code>>
        /\ output' = Append(output, "Command completed successfully")
        /\ settled' = Append(settled, "resolved")
        /\ pc' = "done"
    /\ UNCHANGED <<op, detVars, listVars, chkVars, raised, cmpVars, gitVars,
                   extVars>>
    /\ UNCHANGED <<deleteFlag, nodeModules, removal, pmInfo, executed>>

\* the 'close' event of the subprocess: the promise of executeCommand is
\* resolved for code 0 and rejected for any other code
ExecClose ==
    /\ pc = "ex_wait"
    /\ proc = "running"
    /\ \E code \in ExitCodes :
        /\ proc' = "exited"
        /\ exitCode' = <<code>>
        /\ IF code = 0
           THEN /\ output' = Append(output, "Command completed successfully")
                /\ settled' = Append(settled, "resolved")
                /\ pc' = "done"
                /\ UNCHANGED <<result, raised>>
           ELSE /\ output' = Append(output, CommandFailed(code))
                /\ settled' = Append(settled, "rejected")
                /\ Raise(CommandFailed(code))
    /\ UNCHANGED <<op, detVars, listVars, manifest, requiredDependencies,
                   cmpVars, gitVars,
                   extVars>>
    /\ UNCHANGED <<deleteFlag, nodeModules, removal, pmInfo, executed>>

---------------------------------------------------------------------------
(* GitMonitor *)

\* fs.existsSync(gitHeadPath) is false
MissingHead == [state |-> "missing", content |-> <<>>]
\* fs.readFileSync(gitHeadPath) throws
UnreadableHead == [state |-> "unreadable", content |-> <<>>]

HeadFile(text) == [state |-> "ok", content |-> text]

RefPrefix ==
    <<"r", "e", "f", ":", " ", "r", "e", "f", "s", "/", "h", "e", "a", "d", "s", "/">>

BranchMain     == <<"m", "a", "i", "n">>
BranchFeatureX == <<"f", "e", "a", "t", "u", "r", "e", "/", "x">>
BranchNames    == {BranchMain, BranchFeatureX}

\* the 40 characters of a commit hash, 1a2b3c4 and so on
Hash40 ==
    [i \in 1..40 |->
        CASE i % 8 = 1 -> "1" [] i % 8 = 2 -> "a" [] i % 8 = 3 -> "2"
          [] i % 8 = 4 -> "b" [] i % 8 = 5 -> "3" [] i % 8 = 6 -> "c"
          [] i % 8 = 7 -> "4" [] OTHER -> "d"]

\* a HEAD that was cut short: fewer characters than a short hash has
ShortText == <<"a", "b", "c">>

\* what git writes: the text and a newline
Line(text) == text \o <<"\n">>

Heads ==
    {MissingHead, UnreadableHead}
    \cup {HeadFile(Line(RefPrefix \o n)) : n \in BranchNames}
    \cup {HeadFile(Line(Hash40)), HeadFile(Line(ShortText))}

WhiteSpace == {" ", "\n", "\t", "\r"}

\* s.trim()
RECURSIVE Trim(_)
Trim(s) ==
    IF s # <<>> /\ s[1] \in WhiteSpace THEN Trim(Tail(s))
    ELSE IF s # <<>> /\ s[Len(s)] \in WhiteSpace THEN Trim(SubSeq(s, 1, Len(s) - 1))
    ELSE s

\* s.substring(0, n)
Substring0(s, n) == SubSeq(s, 1, IF Len(s) < n THEN Len(s) ELSE n)

\* mutant: the branch is the last segment of the reference
getCurrentBranch_LastSegment(h) ==
    IF h.state # "ok" THEN <<>>
    ELSE LET headContent == Trim(h.content)
         IN  IF StartsWith(headContent, RefPrefix)
             THEN SubSeq(headContent, Len(headContent), Len(headContent))
             ELSE Substring0(headContent, 7)

\* the value returned for the HEAD file h: '' when it is missing or cannot
\* be read, the text after 'ref: refs/heads/', or the first 7 characters
getCurrentBranch(h) ==
    IF h.state # "ok" THEN <<>>
    ELSE LET headContent == Trim(h.content)
         IN  IF StartsWith(headContent, RefPrefix)
             THEN SubSeq(headContent, Len(RefPrefix) + 1, Len(headContent))
             ELSE Substring0(headContent, 7)

NoCheck ==
    [ran |-> FALSE, head |-> MissingHead, branch |-> <<>>, stored |-> <<>>,
     fired |-> <<>>]

\* mutant: every non-empty branch is emitted, changed or not
checkBranchChange_EmitsAlways ==
    /\ lastCheck' = [ran |-> TRUE, head |-> head, branch |-> getCurrentBranch(head),
                     stored |-> currentBranch, fired |-> fired]
    /\ IF getCurrentBranch(head) # <<>>
       THEN /\ currentBranch' = getCurrentBranch(head)
            /\ fired' = Append(fired, getCurrentBranch(head))
       ELSE UNCHANGED <<currentBranch, fired>>

\* checkBranchChange(workspacePath); lastCheck keeps what it read and the
\* fields as they were before it
checkBranchChange ==
    /\ lastCheck' = [ran |-> TRUE, head |-> head, branch |-> getCurrentBranch(head),
                     stored |-> currentBranch, fired |-> fired]
    /\ IF getCurrentBranch(head) # <<>> /\ getCurrentBranch(head) # currentBranch
       THEN /\ currentBranch' = getCurrentBranch(head)
            /\ fired' = Append(fired, getCurrentBranch(head))
       ELSE UNCHANGED <<currentBranch, fired>>

\* mutant: the watchers are created whether or not .git exists
GitSetup_WatchesAnyway ==
    /\ watchers = "unset"
    /\ currentBranch' = getCurrentBranch(head)
    /\ initialBranch' = getCurrentBranch(head)
    /\ watchers' = "created"
    /\ UNCHANGED <<coreVars, cmpVars, instVars, extVars, disposed>>
    /\ UNCHANGED <<gitDir, head, timers, fired, lastCheck>>

\* the constructor: setupGitMonitoring
GitSetup ==
    /\ watchers = "unset"
    /\ IF ~gitDir
       THEN watchers' = "none" /\ UNCHANGED <<currentBranch, initialBranch>>
       ELSE /\ currentBranch' = getCurrentBranch(head)
            /\ initialBranch' = getCurrentBranch(head)
            /\ watchers' = "created"
    /\ UNCHANGED <<coreVars, cmpVars, instVars, extVars, disposed>>
    /\ UNCHANGED <<gitDir, head, timers, fired, lastCheck>>

\* git rewrites .git/HEAD (a checkout), or the file is removed or damaged
HeadWrite ==
    /\ gitDir
    /\ Len(fired) < MaxEmits
    /\ \E h \in Heads \ {head} : head' = h
    /\ UNCHANGED <<coreVars, cmpVars, instVars, extVars, disposed>>
    /\ UNCHANGED <<gitDir, currentBranch, watchers, initialBranch, timers, fired,
                   lastCheck>>

\* a repository is created in a workspace that had none
GitInit ==
    /\ ~gitDir
    /\ gitDir' = TRUE
    /\ \E h \in Heads : head' = h
    /\ UNCHANGED <<coreVars, cmpVars, instVars, extVars, disposed>>
    /\ UNCHANGED <<currentBranch, watchers, initialBranch, timers, fired, lastCheck>>

\* onDidChange of the watcher of **/.git/HEAD, the watcher kept in the
\* field fileWatcher
HeadNotify ==
    /\ watchers = "created"
    /\ ~disposed
    /\ checkBranchChange
    /\ UNCHANGED <<coreVars, cmpVars, instVars, extVars, disposed>>
    /\ UNCHANGED <<gitDir, head, watchers, initialBranch, timers>>

\* onDidChange of the watcher of **/.git/refs/heads/*: setTimeout(..., 100)
RefNotify ==
    /\ watchers = "created"
    /\ timers < MaxTimers
    /\ timers' = timers + 1
    /\ UNCHANGED <<coreVars, cmpVars, instVars, extVars, disposed>>
    /\ UNCHANGED <<gitDir, head, currentBranch, watchers, initialBranch, fired,
                   lastCheck>>

\* mutant: the callback of setTimeout does not look at the branch
TimerFire_Drops ==
    /\ timers > 0
    /\ timers' = timers - 1
    /\ UNCHANGED <<coreVars, cmpVars, instVars, extVars, disposed>>
    /\ UNCHANGED <<gitDir, head, watchers, initialBranch, currentBranch, fired,
                   lastCheck>>

\* the callback of setTimeout
TimerFire ==
    /\ timers > 0
    /\ timers' = timers - 1
    /\ checkBranchChange
    /\ UNCHANGED <<coreVars, cmpVars, instVars, extVars, disposed>>
    /\ UNCHANGED <<gitDir, head, watchers, initialBranch>>

\* dispose(): fileWatcher and branchChangeEmitter are disposed.  The watcher
\* of refs/heads is a local of setupGitMonitoring and is left as it is, and
\* no timer is cleared
Dispose ==
    /\ watchers # "unset"
    /\ ~disposed
    /\ disposed' = TRUE
    /\ UNCHANGED <<coreVars, cmpVars, instVars, extVars>>
    /\ UNCHANGED <<gitDir, head, currentBranch, watchers, initialBranch, timers,
                   fired, lastCheck>>

---------------------------------------------------------------------------
(* extension.ts: activate, the notification handlers and the command       *)
(* functions.  Every invocation of a command function is a run; a run      *)
(* stands at one of its awaits while other handlers are called.  The       *)
(* status bar item is left out.                                            *)

MaxRuns == 2

\* the extension entry point exists in two versions
CurrentExtension == "part_000"
EarlierExtension == "src/extension.ts"
ExtensionFiles == {CurrentExtension, EarlierExtension}

CmdCheck == "nodeDepsWatcher.checkDependencies"
CmdInstall == "nodeDepsWatcher.cleanInstall"
CmdDetect == "nodeDepsWatcher.detectPackageManager"
Commands == {CmdCheck, CmdInstall, CmdDetect}

\* what `await dependencyChecker.checkDependencies(...)` resolves with: a
\* result without findings, one with an extra package only, one with a
\* missing package, one of a workspace without package.json and one of a
\* caught exception
CoreResults ==
    {NewResult,
     CompareDependencies(NewResult, EmptyObject, <<<<NameA, V190>>>>),
     CompareDependencies(NewResult, <<<<NameA, ReqCaret120>>>>, EmptyObject),
     [NewResult EXCEPT !.errors = <<<<"package.json not found">>>>,
                       !.isValid = FALSE],
     Caught(NewResult, "SyntaxError")}

\* what dependencyChecker.checkDependencies appends to the output channel
CoreLog(res) ==
    IF res.errors = <<>>
    THEN <<<<"Dependency check completed">>>>
    ELSE IF res.errors[1] = <<"package.json not found">>
    THEN <<>>
    ELSE <<<<"Error checking dependencies: ", res.errors[1][2]>>>>

\* what `await dependencyChecker.cleanInstall(...)` rejects with, "" when
\* it resolves
InstallOutcomes ==
    {"", "Unsupported package manager", "rm failed", CommandFailed(1)}

\* the argument of showWarningMessage: messages.join('. ') after the prefix
SyncMessage(res) ==
    <<"Dependencies out of sync. ">>
    \o (IF res.missingPackages # <<>> THEN <<"Missing">> ELSE <<>>)
    \o (IF res.extraPackages # <<>> THEN <<"Extra">> ELSE <<>>)
    \o (IF res.outdatedPackages # <<>> THEN <<"Outdated">> ELSE <<>>)

\* what the user can do with the warning: press a button or dismiss it
PromptActions == {"Clean Install", "Ignore", "undefined"}

Show(r, kind, text) == [r EXCEPT !.shown = Append(@, <<kind, text>>)]
Log(r, text) == [r EXCEPT !.logged = Append(@, text)]
At(r, position) == [r EXCEPT !.at = position]

\* a command function from its call to its first await
NewRun(cmd, trigger, parent, setting) ==
    LET r == [cmd |-> cmd, trigger |-> trigger, parent |-> parent,
              setting |-> setting, at |-> "called", res |-> <<>>,
              action |-> "", error |-> "", shown |-> <<>>, logged |-> <<>>]
    IN  IF ~workspaceFolders
        THEN IF cmd = CmdCheck
             THEN At(r, "returned")
             ELSE At(Show(r, "error", <<"No workspace folder found">>), "returned")
        ELSE IF cmd = CmdCheck THEN At(r, "core") ELSE At(r, "detect")

InProgress(r) == r.at \notin {"returned", "rejected"}

\* the catch block of checkDependencies (the command)
CatchCheck(r, e) ==
    At(Log(Show(r, "error", <<"Failed to check dependencies: ", e>>),
           <<"Error: ", e>>), "returned")

\* the catch block of cleanInstall (the command)
CatchInstall(r, e) ==
    [At(Log(Show(r, "error", <<"Failed to install dependencies: ", e>>),
            <<"Error: ", e>>), "returned") EXCEPT !.error = e]

\* run i has ended as r: the checkDependencies that awaits it goes on
Resume(rs, i, r) ==
    LET ended == [rs EXCEPT ![i] = r]
        p == r.parent
    IN  IF p = 0
        THEN ended
        ELSE IF r.at = "rejected"
        THEN [ended EXCEPT ![p] = CatchCheck(@, r.error)]
        ELSE [ended EXCEPT ![p] = At(@, "returned")]

\* activate(): the initial check, not awaited
Activate ==
    /\ ~activated
    /\ activated' = TRUE
    /\ runs' = IF workspaceFolders
               THEN Append(runs, NewRun(CmdCheck, "activate", 0, TRUE))
               ELSE runs
    /\ UNCHANGED <<coreVars, cmpVars, instVars, gitVars>>
    /\ UNCHANGED <<extensionFile, workspaceFolders, autoCheckOnBranchSwitch,
                   autoCheckOnFileChange>>

\* the user runs a command from the palette or the status bar
UserCommand ==
    /\ activated
    /\ Len(runs) < MaxRuns
    /\ \E cmd \in Commands : runs' = Append(runs, NewRun(cmd, "user", 0, TRUE))
    /\ UNCHANGED <<coreVars, cmpVars, instVars, gitVars>>
    /\ UNCHANGED <<extensionFile, workspaceFolders, activated,
                   autoCheckOnBranchSwitch, autoCheckOnFileChange>>

\* the handler of gitMonitor.onBranchChange
BranchChanged ==
    /\ activated
    /\ workspaceFolders
    /\ Len(runs) < MaxRuns
    /\ runs' = IF autoCheckOnBranchSwitch
               THEN Append(runs, NewRun(CmdCheck, "branch", 0,
                                        autoCheckOnBranchSwitch))
               ELSE runs
    /\ UNCHANGED <<coreVars, cmpVars, instVars, gitVars>>
    /\ UNCHANGED <<extensionFile, workspaceFolders, activated,
                   autoCheckOnBranchSwitch, autoCheckOnFileChange>>

\* a change of package.json or of a lock file: the handler of
\* packageManagerDetector.onFileChange in the current version, the handlers
\* of the extension's own two watchers in the earlier one
FileChanged ==
    /\ activated
    /\ workspaceFolders
    /\ Len(runs) < MaxRuns
    /\ runs' = IF extensionFile = EarlierExtension \/ autoCheckOnFileChange
               THEN Append(runs, NewRun(CmdCheck, "file", 0,
                                        autoCheckOnFileChange))
               ELSE runs
    /\ UNCHANGED <<coreVars, cmpVars, instVars, gitVars>>
    /\ UNCHANGED <<extensionFile, workspaceFolders, activated,
                   autoCheckOnBranchSwitch, autoCheckOnFileChange>>

\* toggleAutoCheckOnBranchSwitch, toggleAutoCheck in the earlier version
ToggleBranchSwitch ==
    /\ activated
    /\ autoCheckOnBranchSwitch' = ~autoCheckOnBranchSwitch
    /\ UNCHANGED <<coreVars, cmpVars, instVars, gitVars>>
    /\ UNCHANGED <<extensionFile, workspaceFolders, activated,
                   autoCheckOnFileChange, runs>>

\* toggleAutoCheckOnFileChange, a command of the current version only
ToggleFileChange ==
    /\ activated
    /\ extensionFile = CurrentExtension
    /\ autoCheckOnFileChange' = ~autoCheckOnFileChange
    /\ UNCHANGED <<coreVars, cmpVars, instVars, gitVars>>
    /\ UNCHANGED <<extensionFile, workspaceFolders, activated,
                   autoCheckOnBranchSwitch, runs>>

\* checkDependencies (the command) after `await
\* dependencyChecker.checkDependencies(...)`: up to the return or to the
\* await of showWarningMessage
CheckSettles ==
    /\ \E i \in 1..Len(runs) :
        /\ runs[i].at = "core"
        /\ \E res \in CoreResults :
            LET r == [runs[i] EXCEPT !.res = <<res>>,
                                     !.logged = @ \o CoreLog(res)]
            IN  runs' = [runs EXCEPT ![i] =
                    IF res.isValid
                    THEN At(Show(r, "information",
                                 <<"Dependencies are up to date!">>), "returned")
                    ELSE At(Show(r, "warning", SyncMessage(res)), "prompt")]
    /\ UNCHANGED <<coreVars, cmpVars, instVars, gitVars>>
    /\ UNCHANGED <<extensionFile, workspaceFolders, activated,
                   autoCheckOnBranchSwitch, autoCheckOnFileChange>>

\* mutant: any answer to the warning starts the clean install
PromptAnswered_InstallsAlways ==
    /\ \E i \in 1..Len(runs) :
        /\ runs[i].at = "prompt"
        /\ Len(runs) < MaxRuns
        /\ \E a \in PromptActions :
            runs' = Append([runs EXCEPT ![i] = [At(@, "nested") EXCEPT !.action = a]],
                           NewRun(CmdInstall, "prompt", i, TRUE))
    /\ UNCHANGED <<coreVars, cmpVars, instVars, gitVars>>
    /\ UNCHANGED <<extensionFile, workspaceFolders, activated,
                   autoCheckOnBranchSwitch, autoCheckOnFileChange>>

\* checkDependencies (the command) after `await showWarningMessage(...)`
PromptAnswered ==
    /\ \E i \in 1..Len(runs) :
        /\ runs[i].at = "prompt"
        /\ \E a \in PromptActions :
            IF a = "Clean Install"
            THEN /\ Len(runs) < MaxRuns
                 /\ runs' = Append([runs EXCEPT ![i] =
                                       [At(@, "nested") EXCEPT !.action = a]],
                                   NewRun(CmdInstall, "prompt", i, TRUE))
            ELSE runs' = [runs EXCEPT ![i] =
                             [At(@, "returned") EXCEPT !.action = a]]
    /\ UNCHANGED <<coreVars, cmpVars, instVars, gitVars>>
    /\ UNCHANGED <<extensionFile, workspaceFolders, activated,
                   autoCheckOnBranchSwitch, autoCheckOnFileChange>>

\* cleanInstall (the command) after `await detectPackageManager(...)`
InstallDetects ==
    /\ \E i \in 1..Len(runs) :
        /\ runs[i].cmd = CmdInstall
        /\ runs[i].at = "detect"
        /\ runs' = [runs EXCEPT ![i] =
                       At(Log(@, <<"Using package manager: ">>), "install")]
    /\ UNCHANGED <<coreVars, cmpVars, instVars, gitVars>>
    /\ UNCHANGED <<extensionFile, workspaceFolders, activated,
                   autoCheckOnBranchSwitch, autoCheckOnFileChange>>

\* cleanInstall (the command) after `await dependencyChecker.cleanInstall(...)`
InstallSettles ==
    /\ \E i \in 1..Len(runs) :
        /\ runs[i].at = "install"
        /\ \E e \in InstallOutcomes :
            runs' = Resume(runs, i,
                        IF e = ""
                        THEN At(Show(runs[i], "information",
                                     <<"Dependencies successfully installed!">>),
                                "returned")
                        ELSE CatchInstall(runs[i], e))
    /\ UNCHANGED <<coreVars, cmpVars, instVars, gitVars>>
    /\ UNCHANGED <<extensionFile, workspaceFolders, activated,
                   autoCheckOnBranchSwitch, autoCheckOnFileChange>>

\* detectPackageManager (the command) after `await detectPackageManager(...)`
DetectSettles ==
    /\ \E i \in 1..Len(runs) :
        /\ runs[i].cmd = CmdDetect
        /\ runs[i].at = "detect"
        /\ runs' = [runs EXCEPT ![i] =
                       At(Log(Show(@, "information",
                                   <<"Detected package manager: ">>),
                              <<"Detected package manager: ">>), "returned")]
    /\ UNCHANGED <<coreVars, cmpVars, instVars, gitVars>>
    /\ UNCHANGED <<extensionFile, workspaceFolders, activated,
                   autoCheckOnBranchSwitch, autoCheckOnFileChange>>

---------------------------------------------------------------------------
(* Initial states and specifications *)

NoManifest == [state |-> "missing", dependencies |-> <<>>, devDependencies |-> <<>>]
BadManifest == [state |-> "unparseable", dependencies |-> <<>>, devDependencies |-> <<>>]

Manifests ==
    {NoManifest, BadManifest} \cup
    {[state |-> "ok", dependencies |-> dv[1], devDependencies |-> dv[2]] :
        dv \in {x \in Objects(PkgNames, Requirements, MaxDeclared)
                        \X Objects(PkgNames, Requirements, MaxDeclared) :
                    Len(x[1]) + Len(x[2]) <= MaxDeclared}}

\* the configurations and workspaces a check is run in: one for each way
\* detectPackageManager returns
CheckEnvironments ==
    {[preferred |-> "bun", lockFiles |-> {}, available |-> {}],
     [preferred |-> "auto", lockFiles |-> {"yarn.lock"}, available |-> {}],
     [preferred |-> "auto", lockFiles |-> {}, available |-> {"pnpm"}],
     [preferred |-> "auto", lockFiles |-> {}, available |-> {}]}

InitCore ==
    /\ op = "none"
    /\ pc = "idle"
    /\ pmIndex = 1
    /\ lockTested = <<>>
    /\ probed = <<>>
    /\ detected = NoName
    /\ manager = NoName
    /\ listRun = <<>>
    /\ listCalls = <<>>
    /\ commandOutput = EmptyOut
    /\ packages = EmptyObject
    /\ requiredDependencies = EmptyObject
    /\ result = NewResult
    /\ raised = ""

InitCompatIdle ==
    /\ argRequired = <<>>
    /\ argInstalled = <<>>
    /\ compatible = <<>>

InitInstallIdle ==
    /\ deleteFlag = FALSE
    /\ nodeModules = FALSE
    /\ removal = "none"
    /\ pmInfo = NoProfile
    /\ proc = "none"
    /\ exitCode = <<>>
    /\ executed = <<>>
    /\ output = <<>>
    /\ settled = <<>>

InitGitIdle ==
    /\ gitDir = FALSE
    /\ head = MissingHead
    /\ currentBranch = <<>>
    /\ watchers = "unset"
    /\ initialBranch = <<>>
    /\ timers = 0
    /\ fired = <<>>
    /\ lastCheck = NoCheck
    /\ disposed = FALSE

\* the extension is not activated
InitExtIdle ==
    /\ extensionFile = "src/extension.ts"
    /\ workspaceFolders = TRUE
    /\ activated = FALSE
    /\ autoCheckOnBranchSwitch = TRUE
    /\ autoCheckOnFileChange = FALSE
    /\ runs = <<>>

InitProgram ==
    /\ InitCore
    /\ InitCompatIdle
    /\ InitInstallIdle
    /\ InitGitIdle
    /\ InitExtIdle

\* detectPackageManager in every configuration and workspace
InitDetect ==
    /\ InitProgram
    /\ preferred \in Preferences
    /\ lockFiles \in SUBSET LockFileNames
    /\ available \in SUBSET PMNames
    /\ manifest = NoManifest

NextDetect ==
    \/ CallDetect
    \/ DetectConfig
    \/ DetectLockFile
    \/ DetectProbe
    \/ DetectDefault

SpecDetect == InitDetect /\ [][NextDetect]_vars

\* getInstalledPackages with every manager name and list-command outcome
InitList ==
    /\ InitProgram
    /\ preferred = "auto"
    /\ lockFiles = {}
    /\ available = {}
    /\ manifest = NoManifest

NextList ==
    \/ CallList
    \/ ListFirst
    \/ ListRetry

SpecList == InitList /\ [][NextList]_vars

\* checkDependencies
Init ==
    /\ InitProgram
    /\ \E env \in CheckEnvironments :
        /\ preferred = env.preferred
        /\ lockFiles = env.lockFiles
        /\ available = env.available
    /\ manifest \in Manifests

Next ==
    \/ CallCheck
    \/ CheckManifest
    \/ DetectConfig
    \/ DetectLockFile
    \/ DetectProbe
    \/ DetectDefault
    \/ ListFirst
    \/ ListRetry

Spec == Init /\ [][Next]_vars

\* isVersionCompatible and the loop body that calls it
InitCompat ==
    /\ InitCore
    /\ preferred = "auto"
    /\ lockFiles = {}
    /\ available = {}
    /\ manifest = NoManifest
    /\ argRequired \in CompatRequirements
    /\ argInstalled \in CompatInstalled
    /\ compatible = <<>>
    /\ InitInstallIdle
    /\ InitGitIdle
    /\ InitExtIdle

NextCompat ==
    \/ CallCompatible
    \/ CallCheckEntry

SpecCompat == InitCompat /\ [][NextCompat]_vars

\* the operations that take a manager name, and executeCommand, in every
\* setting of deleteNodeModulesOnCleanInstall, with and without node_modules
InitInstall ==
    /\ InitCore
    /\ preferred = "auto"
    /\ lockFiles = {}
    /\ available = {}
    /\ manifest = NoManifest
    /\ InitCompatIdle
    /\ InitGitIdle
    /\ InitExtIdle
    /\ deleteFlag \in BOOLEAN
    /\ nodeModules \in BOOLEAN
    /\ removal = "none"
    /\ pmInfo = NoProfile
    /\ proc = "none"
    /\ exitCode = <<>>
    /\ executed = <<>>
    /\ output = <<>>
    /\ settled = <<>>

NextInstall ==
    \/ CallInfo
    \/ CallCleanInstall
    \/ CleanStart
    \/ CleanRemoved
    \/ CallExecute
    \/ ExecData
    \/ ExecClose
    \/ CallList
    \/ ListFirst
    \/ ListRetry

SpecInstall == InitInstall /\ [][NextInstall]_vars

\* the branch monitor, in a workspace with or without a repository
InitGit ==
    /\ InitCore
    /\ preferred = "auto"
    /\ lockFiles = {}
    /\ available = {}
    /\ manifest = NoManifest
    /\ InitCompatIdle
    /\ InitInstallIdle
    /\ InitExtIdle
    /\ gitDir \in BOOLEAN
    /\ head \in IF gitDir THEN Heads ELSE {MissingHead}
    /\ currentBranch = <<>>
    /\ watchers = "unset"
    /\ initialBranch = <<>>
    /\ timers = 0
    /\ fired = <<>>
    /\ lastCheck = NoCheck
    /\ disposed = FALSE

NextGit ==
    \/ GitSetup
    \/ HeadWrite
    \/ GitInit
    \/ HeadNotify
    \/ RefNotify
    \/ TimerFire
    \/ Dispose

SpecGit == InitGit /\ [][NextGit]_vars

\* the branch monitor in a host whose event loop runs every timer that is due
SpecGitFair == SpecGit /\ WF_vars(TimerFire)

\* the extension in both versions, with and without a workspace folder, in
\* every setting of the two auto-check options
InitExt ==
    /\ InitCore
    /\ preferred = "auto"
    /\ lockFiles = {}
    /\ available = {}
    /\ manifest = NoManifest
    /\ InitCompatIdle
    /\ InitInstallIdle
    /\ InitGitIdle
    /\ extensionFile \in ExtensionFiles
    /\ workspaceFolders \in BOOLEAN
    /\ activated = FALSE
    /\ autoCheckOnBranchSwitch \in BOOLEAN
    /\ autoCheckOnFileChange \in BOOLEAN
    /\ runs = <<>>

NextExt ==
    \/ Activate
    \/ UserCommand
    \/ BranchChanged
    \/ FileChanged
    \/ ToggleBranchSwitch
    \/ ToggleFileChange
    \/ CheckSettles
    \/ PromptAnswered
    \/ InstallDetects
    \/ InstallSettles
    \/ DetectSettles

SpecExt == InitExt /\ [][NextExt]_vars

---------------------------------------------------------------------------
(* Properties *)

Elements(q) == {q[i] : i \in 1..Len(q)}

\* checkDependencies has returned its result
Returned == op = "check" /\ pc = "done"

\* ... and neither the manifest was missing nor an exception was caught
Completed == Returned /\ result.errors = <<>>

\* C1, as stated: every returned result has isValid true if and only if
\* missingPackages and outdatedPackages are both empty.
C1_ValidIffNoMissingNoOutdated ==
    Returned =>
        (result.isValid <=>
            (result.missingPackages = <<>> /\ result.outdatedPackages = <<>>))

\* C1, amended: every returned result has isValid true if and only if
\* missingPackages, outdatedPackages and errors are all empty.
C1_ValidIffNothingReported ==
    Returned =>
        (result.isValid <=>
            (/\ result.missingPackages = <<>>
             /\ result.outdatedPackages = <<>>
             /\ result.errors = <<>>))

\* a completed check that reports an extra package and is still valid
C1_Witness ==
    /\ Completed
    /\ result.isValid
    /\ result.extraPackages # <<>>
    /\ requiredDependencies # <<>>

\* C2: with package.json absent, checkDependencies returns at once with
\* isValid false, the single error "package.json not found" and empty
\* missing, extra and outdated lists; no lock file is tested, no executable
\* probed and no list command run.
C2_MissingManifest ==
    (op = "check" /\ manifest.state = "missing") =>
        /\ pc \in {"chk_manifest", "done"}
        /\ lockTested = <<>> /\ probed = <<>> /\ detected = NoName
        /\ listCalls = <<>> /\ listRun = <<>>
        /\ raised = ""
        /\ (pc = "done" =>
                result = [isValid |-> FALSE,
                          missingPackages |-> <<>>, extraPackages |-> <<>>,
                          outdatedPackages |-> <<>>,
                          errors |-> << <<"package.json not found">> >>])

C2_Witness == Returned /\ manifest.state = "missing" /\ ~result.isValid

\* the entries of outdatedPackages that are about the package `name`
OutdatedEntriesFor(name) ==
    {j \in 1..Len(result.outdatedPackages) :
        StartsWith(result.outdatedPackages[j], name \o <<"@">>)}

\* C3: in a completed check every declared name is in missingPackages iff it
\* is absent from the installed set, has exactly one outdatedPackages entry
\* 'name@installed (required: requirement)' iff it is present with an
\* incompatible version, and is in neither otherwise; when every declared
\* name is installed with a satisfying version the result is valid.
C3_Classification ==
    Completed =>
        /\ \A i \in 1..Len(requiredDependencies) :
            LET name    == requiredDependencies[i][1]
                version == requiredDependencies[i][2]
                present == HasOwn(packages, name)
            IN  /\ (name \in Elements(result.missingPackages)) <=> ~present
                /\ IF present /\ ~isVersionCompatible(version, OwnValue(packages, name))
                   THEN /\ Cardinality(OutdatedEntriesFor(name)) = 1
                        /\ \A j \in OutdatedEntriesFor(name) :
                              result.outdatedPackages[j] =
                                 OutdatedEntry(name, OwnValue(packages, name), version)
                   ELSE OutdatedEntriesFor(name) = {}
        /\ (\A i \in 1..Len(requiredDependencies) :
                /\ HasOwn(packages, requiredDependencies[i][1])
                /\ isVersionCompatible(requiredDependencies[i][2],
                        OwnValue(packages, requiredDependencies[i][1])))
            => /\ result.missingPackages = <<>>
               /\ result.outdatedPackages = <<>>
               /\ result.isValid

\* C4: in a completed check extraPackages holds exactly the installed names
\* that are not keys of the merged requiredDependencies.
C4_ExtraExact ==
    Completed =>
        Elements(result.extraPackages) =
            Elements(ObjKeys(packages)) \ Elements(ObjKeys(requiredDependencies))

\* detectPackageManager has returned to its caller
Detected == op = "detect" /\ pc = "done"

\* C5: a preference other than "auto" is returned unchanged, whatever lock
\* files and executables there are, and no lock file is tested and no
\* executable probed.
C5_PreferenceWins ==
    (op = "detect" /\ preferred # "auto") =>
        /\ lockTested = <<>>
        /\ probed = <<>>
        /\ (pc = "done" => detected = preferred)

C5_Witness ==
    /\ Detected
    /\ preferred = "yarn"
    /\ lockFiles = {"pnpm-lock.yaml"}
    /\ detected = "yarn"

\* C6: with preference "auto" and a lock file present, the result is the
\* first of pnpm, yarn, npm whose lock file exists, whatever executables are
\* available, and no executable is probed.
C6_FirstLockFile ==
    (op = "detect" /\ preferred = "auto" /\ lockFiles # {}) =>
        /\ probed = <<>>
        /\ (pc = "done" =>
                detected = IF "pnpm-lock.yaml" \in lockFiles THEN "pnpm"
                           ELSE IF "yarn.lock" \in lockFiles THEN "yarn"
                           ELSE "npm")

C6_Witness ==
    /\ Detected
    /\ preferred = "auto"
    /\ lockFiles = {"yarn.lock", "package-lock.json"}
    /\ available = {"pnpm", "npm"}
    /\ detected = "yarn"

\* C7: with preference "auto" and no lock file, executables are probed in the
\* order pnpm, yarn, npm up to the first that answers, which is returned;
\* when none answers the result is npm.
C7_FirstAvailable ==
    (Detected /\ preferred = "auto" /\ lockFiles = {}) =>
        IF "pnpm" \in available
        THEN detected = "pnpm" /\ probed = <<"pnpm">>
        ELSE IF "yarn" \in available
        THEN detected = "yarn" /\ probed = <<"pnpm", "yarn">>
        ELSE detected = "npm" /\ probed = <<"pnpm", "yarn", "npm">>

C7_Witness ==
    /\ Detected
    /\ preferred = "auto"
    /\ lockFiles = {}
    /\ available = {"yarn", "npm"}
    /\ detected = "yarn"
    /\ probed = <<"pnpm", "yarn">>

\* C8: detectPackageManager never fails: nothing is raised, every call goes
\* on until it returns a name, and after a failed probe detection is at the
\* next candidate or at the default.
C8_DetectNeverFails ==
    op = "detect" =>
        /\ raised = ""
        /\ (pc = "done" => detected # NoName)
        /\ (pc # "done" => ENABLED NextDetect)
        /\ ((probed # <<>> /\ probed[Len(probed)] \notin available) =>
                pc \in {"det_probe", "det_default", "done"})

C8_Witness ==
    /\ Detected
    /\ available = {}
    /\ probed = <<"pnpm", "yarn", "npm">>
    /\ detected = "npm"

\* C9: getInstalledPackages with a known manager never raises, whatever the
\* first and the second execution of the list command do, and returns the
\* empty set when the captured output does not parse.
C9_ListNeverRaises ==
    (op = "list" /\ manager \in PMNames) =>
        /\ raised = ""
        /\ (pc = "done" =>
                ((JsonThrows(commandOutput) \/ commandOutput.shape = "null")
                    => packages = EmptyObject))

\* an exception is thrown inside the try block of checkDependencies
ExceptionThrown ==
    \/ manifest.state = "unparseable"
    \/ (detected # NoName /\ detected \notin PMNames)
    \/ (listRun # <<>> /\ ~listRun[Len(listRun)].shellOk)

\* C10: checkDependencies never raises: it always goes on until it returns,
\* and when an exception was thrown on the way the result has one more
\* errors entry, the diagnostic, and isValid false.
C10_CheckNeverRaises ==
    op = "check" =>
        /\ raised = ""
        /\ (pc # "done" => ENABLED Next)
        /\ ((pc = "done" /\ ExceptionThrown) =>
                /\ ~result.isValid
                /\ Len(result.errors) = 1
                /\ result.errors[1][1] = "Failed to check dependencies: ")

C10_Witness ==
    /\ Returned
    /\ Len(listRun) = 2
    /\ ~listRun[2].shellOk
    /\ result.errors = << <<"Failed to check dependencies: ", "Command failed">> >>

---------------------------------------------------------------------------
(* Properties of isVersionCompatible *)

TripleTexts == {FormatVersion(t) : t \in Triples}

\* the triple a text "M.m.p" was written from
TripleOf(text) == CHOOSE t \in Triples : FormatVersion(t) = text

\* a requirement without its ^ or ~, an installed version without its v
WithoutOperator(s) == IF s # <<>> /\ s[1] \in {"^", "~"} THEN Tail(s) ELSE s
WithoutV(s) == IF s # <<>> /\ s[1] = "v" THEN Tail(s) ELSE s

\* semantic-version range matching on triples: ^r allows changes right of
\* the leftmost non-zero part of r, ~r allows patch changes, r alone is r
InRange(o, r, v) ==
    IF o = "^"
    THEN IF r[1] > 0 THEN v[1] = r[1] /\ ~VLt(v, r)
         ELSE IF r[2] > 0 THEN v[1] = 0 /\ v[2] = r[2] /\ v[3] >= r[3]
         ELSE v = r
    ELSE IF o = "~"
    THEN v[1] = r[1] /\ v[2] = r[2] /\ v[3] >= r[3]
    ELSE v = r

CompatibleReturned == op = "compatible" /\ pc = "done"

\* C11: for a requirement [^|~]M.m.p and an installed version [v]M.m.p,
\* isVersionCompatible returns true exactly when the installed version is in
\* the caret range, in the tilde range, or equal to the required version;
\* a leading v on the installed version changes nothing.
C11_RangeSemantics ==
    (/\ CompatibleReturned
     /\ WithoutOperator(argRequired) \in TripleTexts
     /\ IsString(argInstalled)
     /\ WithoutV(argInstalled) \in TripleTexts) =>
        compatible =
            << InRange(IF argRequired[1] \in {"^", "~"} THEN argRequired[1] ELSE "",
                       TripleOf(WithoutOperator(argRequired)),
                       TripleOf(WithoutV(argInstalled))) >>

C11_Witness ==
    /\ CompatibleReturned
    /\ argRequired = <<"^", "1", ".", "2", ".", "0">>
    /\ argInstalled = <<"v", "1", ".", "9", ".", "0">>
    /\ compatible = <<TRUE>>

\* C12: a requirement that starts with 'file:' or 'git+' is compatible with
\* every installed value, and a declared package with such a requirement
\* that is installed is reported neither as outdated nor as missing.
C12_LocalAndGitAlwaysCompatible ==
    (StartsWith(argRequired, FilePrefix) \/ StartsWith(argRequired, GitPrefix)) =>
        /\ (CompatibleReturned => compatible = <<TRUE>>)
        /\ ((op = "checkEntry" /\ pc = "done") =>
                /\ result.outdatedPackages = <<>>
                /\ result.missingPackages = <<>>
                /\ result.isValid)

C12_Witness ==
    /\ op = "checkEntry" /\ pc = "done"
    /\ argRequired = ReqGit
    /\ argInstalled = ReqLatest
    /\ packages = <<<<NameA, ReqLatest>>>>
    /\ result.outdatedPackages = <<>>

---------------------------------------------------------------------------
(* Properties of the merged requirements *)

\* checkDependencies has read and merged the manifest
Merged == op = "check" /\ manifest.state = "ok" /\ pc # "chk_manifest"

\* C13: the keys of the merged requiredDependencies are exactly the names
\* declared in dependencies or in devDependencies, and a name declared in
\* both keeps the requirement of dependencies.
C13_MergedSpec ==
    Merged =>
        /\ Elements(ObjKeys(requiredDependencies)) =
              Elements(ObjKeys(manifest.dependencies))
                \cup Elements(ObjKeys(manifest.devDependencies))
        /\ \A i \in 1..Len(manifest.dependencies) :
              OwnValue(requiredDependencies, manifest.dependencies[i][1])
                 = manifest.dependencies[i][2]

---------------------------------------------------------------------------
(* Properties of the parse of yarn's listing *)

\* getInstalledPackages(dir, 'yarn') has returned the parse of a listing
YarnParsed ==
    /\ op = "list" /\ pc = "done" /\ raised = ""
    /\ manager = "yarn"
    /\ commandOutput.shape = "yarn"

---------------------------------------------------------------------------
(* Properties of cleanInstall, executeCommand and getPackageManagerInfo *)

\* the clean-install command has been started
CommandStarted == executed # <<>>

\* C15: in cleanInstall with a known manager, node_modules is removed only
\* when deleteNodeModulesOnCleanInstall is set; when it is set, node_modules
\* is gone before the clean-install command is started and the command is
\* not started while the removal is under way; a node_modules that is
\* absent is no error: nothing is removed and the command is run.
C15_DeleteBeforeInstall ==
    (op = "cleanInstall" /\ manager \in PMNames) =>
        /\ (removal # "none" => deleteFlag)
        /\ (removal \in {"started", "failed"} => ~CommandStarted)
        /\ (CommandStarted =>
                IF deleteFlag
                THEN ~nodeModules /\ removal \in {"none", "done"}
                ELSE removal = "none")
        /\ ((pc # "ci_start" /\ removal = "none") => CommandStarted)
        /\ ((pc = "done" /\ raised # "") =>
                \/ removal = "failed"
                \/ (exitCode # <<>> /\ exitCode # <<0>>))

C15_Witness ==
    /\ op = "cleanInstall" /\ pc = "done"
    /\ deleteFlag
    /\ removal = "done"
    /\ ~nodeModules
    /\ executed = <<"pnpm install --frozen-lockfile">>
    /\ settled = <<"resolved">>

\* C16: cleanInstall starts the clean-install command at most once, and
\* when the command exits with a code other than 0 cleanInstall is over and
\* has rejected with the error of that exit.
C16_NoRetry ==
    op = "cleanInstall" =>
        /\ Len(executed) <= 1
        /\ ((exitCode # <<>> /\ exitCode # <<0>>) =>
                /\ pc = "done"
                /\ Len(executed) = 1
                /\ raised = CommandFailed(exitCode[1]))

C16_Witness ==
    /\ op = "cleanInstall" /\ pc = "done"
    /\ executed = <<"npm ci">>
    /\ exitCode = <<1>>
    /\ raised = "Command failed with code 1"

\* C17: the promise of executeCommand is settled at most once, never while
\* the subprocess is running and exactly once when it has closed: resolved
\* if and only if the code is 0, and otherwise rejected with the error that
\* names the code.
C17_SettlesOnceAfterExit ==
    op \in {"execute", "cleanInstall"} =>
        /\ Len(settled) <= 1
        /\ (proc \in {"none", "running"} => settled = <<>>)
        /\ (proc = "running" => pc = "ex_wait")
        /\ (proc = "exited" =>
                /\ Len(settled) = 1
                /\ pc = "done"
                /\ (settled[1] = "resolved" <=> exitCode = <<0>>)
                /\ (exitCode = <<0>> => raised = "")
                /\ (exitCode # <<0>> =>
                        /\ settled[1] = "rejected"
                        /\ raised = CommandFailed(exitCode[1])))

C17_Witness ==
    /\ op = "execute" /\ pc = "done"
    /\ output = <<"stderr", "Command failed with code 127">>
    /\ exitCode = <<127>>
    /\ settled = <<"rejected">>

\* C18: with a manager name that has no profile, getPackageManagerInfo
\* raises the unsupported-manager error, and cleanInstall and
\* getInstalledPackages reject with it before node_modules is removed and
\* before any command is run.
C18_UnknownManagerFatal ==
    (op \in {"info", "cleanInstall", "list"} /\ manager \notin PMNames) =>
        /\ pc \in {"ci_start", "lst_first", "done"}
        /\ removal = "none"
        /\ executed = <<>> /\ proc = "none"
        /\ listCalls = <<>> /\ listRun = <<>>
        /\ pmInfo = NoProfile
        /\ (pc = "done" => raised = "Unsupported package manager")

C18_Witness ==
    /\ op = "cleanInstall" /\ pc = "done"
    /\ manager = "bun"
    /\ deleteFlag /\ nodeModules
    /\ raised = "Unsupported package manager"

---------------------------------------------------------------------------
(* Properties of the branch monitor *)

Hash7 == <<"1", "a", "2", "b", "3", "c", "4">>

\* the HEAD file names a branch
NamesBranch(h) == \E n \in BranchNames : h.content = Line(RefPrefix \o n)

\* C19, as stated: getCurrentBranch gives the whole name for a HEAD that
\* is 'ref: refs/heads/<name>', a prefix of exactly 7 characters for any
\* other content, and the empty string, without raising, for a HEAD that is
\* missing or cannot be read.
C19_BranchOfHead ==
    lastCheck.ran =>
        /\ raised = ""
        /\ (lastCheck.head.state # "ok" => lastCheck.branch = <<>>)
        /\ \A n \in BranchNames :
              lastCheck.head.content = Line(RefPrefix \o n) => lastCheck.branch = n
        /\ ((lastCheck.head.state = "ok" /\ ~NamesBranch(lastCheck.head)) =>
                /\ Len(lastCheck.branch) = 7
                /\ lastCheck.branch = SubSeq(lastCheck.head.content, 1, 7))

\* C19, amended: as above, except that other content gives its first 7
\* characters when it has that many and the whole content, without the
\* newline, when it is shorter.
C19_BranchOfHeadUpTo7 ==
    lastCheck.ran =>
        /\ raised = ""
        /\ (lastCheck.head.state # "ok" => lastCheck.branch = <<>>)
        /\ \A n \in BranchNames :
              lastCheck.head.content = Line(RefPrefix \o n) => lastCheck.branch = n
        /\ \A t \in {Hash40, ShortText} :
              lastCheck.head.content = Line(t) =>
                  lastCheck.branch = IF Len(t) >= 7 THEN SubSeq(t, 1, 7) ELSE t

C19_Witness ==
    /\ lastCheck.ran
    /\ lastCheck.head = HeadFile(Line(Hash40))
    /\ lastCheck.branch = Hash7

\* C20: a check emits exactly when the branch it computed is not empty and
\* differs from the stored one, and then the stored branch is the emitted
\* name; otherwise it leaves the stored branch and emits nothing.  So no
\* emitted name is empty, no two in a row are equal, the first differs from
\* the branch read at setup, and the stored branch is the last emitted
\* name, or the one read at setup while nothing was emitted.
C20_EmitsOnChange ==
    /\ lastCheck.ran =>
          IF lastCheck.branch # <<>> /\ lastCheck.branch # lastCheck.stored
          THEN /\ currentBranch = lastCheck.branch
               /\ fired = Append(lastCheck.fired, lastCheck.branch)
          ELSE /\ currentBranch = lastCheck.stored
               /\ fired = lastCheck.fired
    /\ \A i \in 1..Len(fired) : fired[i] # <<>>
    /\ \A i \in 1..(Len(fired) - 1) : fired[i] # fired[i + 1]
    /\ (fired # <<>> =>
            /\ fired[1] # initialBranch
            /\ currentBranch = fired[Len(fired)])
    /\ ((fired = <<>> /\ watchers = "created") => currentBranch = initialBranch)

C20_Witness ==
    /\ initialBranch = BranchMain
    /\ fired = <<BranchFeatureX, BranchMain>>
    /\ lastCheck.ran
    /\ lastCheck.branch = BranchMain
    /\ lastCheck.stored = BranchMain
    /\ currentBranch = BranchMain

\* C21: a monitor that found no .git at setup has no watchers for the rest
\* of its life: whatever happens later, the repository being created
\* included, it creates none, keeps its stored branch and emits nothing;
\* watchers are created only at setup, and only where .git exists.
C21_DormantWithoutRepository ==
    [][ /\ (watchers = "none" =>
                /\ watchers' = "none"
                /\ currentBranch' = currentBranch
                /\ fired' = fired
                /\ lastCheck' = lastCheck
                /\ timers' = timers)
        /\ ((watchers' = "created" /\ watchers # "created") =>
                (watchers = "unset" /\ gitDir)) ]_vars

C21_Witness ==
    /\ watchers = "none"
    /\ gitDir
    /\ head = HeadFile(Line(RefPrefix \o BranchMain))
    /\ currentBranch = <<>>
    /\ fired = <<>>

---------------------------------------------------------------------------
(* Properties of the executions of the list command *)

\* getInstalledPackages with a known manager is over
ListOver == op = "list" /\ pc = "done" /\ manager \in PMNames

\* C23: one call of getInstalledPackages runs the list command once when
\* the first execution exits with 0, and twice, the plain form and then the
\* shell form, when it does not; never a third time.
C23_ListOnceOrTwice ==
    (op = "list" /\ manager \in PMNames) =>
        /\ Len(listCalls) <= 2
        /\ Len(listRun) = Len(listCalls)
        /\ (pc = "lst_retry" => listCalls = <<"plain">> /\ listRun[1].exit # 0)
        /\ (pc = "done" =>
                IF listRun[1].exit = 0
                THEN listCalls = <<"plain">>
                ELSE listCalls = <<"plain", "shell">>)

C23_Witness ==
    /\ ListOver
    /\ listCalls = <<"plain", "shell">>
    /\ listRun[1].exit = 1
    /\ listRun[2].shellOk /\ listRun[2].exit = 1
    /\ packages # EmptyObject

\* C24: when the first execution exits with a code other than 0,
\* getInstalledPackages returns the parse of what the list command printed
\* in its second execution, whether that one exits with 0 or not.
C24_RetryOutputParsed ==
    (ListOver /\ raised = "" /\ Len(listRun) = 2) =>
        packages = ParseInstalled(manager, listRun[2].out)

---------------------------------------------------------------------------
(* Properties of requirements that are no versions *)

\* requirements that denote a local path or a repository
LocalOrVcsRequirements == {ReqFile, ReqGit, ReqGithub, ReqLink, ReqGitUrl}

\* C25: every requirement that denotes a local path or a repository, not
\* only one that starts with 'file:' or 'git+', is compatible with every
\* installed value, and an installed package declared with it is not
\* reported as outdated.
C25_EveryMarkerCompatible ==
    argRequired \in LocalOrVcsRequirements =>
        /\ (CompatibleReturned => compatible = <<TRUE>>)
        /\ ((op = "checkEntry" /\ pc = "done") => result.outdatedPackages = <<>>)

---------------------------------------------------------------------------
(* Properties of the delayed check *)

\* the HEAD files that name a branch or a commit, with the branch they give
SettledHeads ==
    {<<HeadFile(Line(RefPrefix \o n)), n>> : n \in BranchNames}
    \cup {<<HeadFile(Line(Hash40)), Hash7>>}

\* the monitor has emitted b last, or has had it since setup
Holds(b) ==
    /\ currentBranch = b
    /\ IF fired = <<>> THEN initialBranch = b ELSE fired[Len(fired)] = b

\* C28: a notification for .git/HEAD is checked in the step that delivers
\* it; a notification for a branch ref only starts a timer, and the check
\* is made in the later step in which the timer fires, on HEAD as it is
\* then.  Where every timer that is due fires, a timer pending while HEAD
\* stays at a branch B leads to the monitor holding B, emitted if it was
\* not the stored branch.
C28_DelayedCheck ==
    /\ [][ /\ (timers' > timers => lastCheck' = lastCheck)
           /\ (timers' > timers => (currentBranch' = currentBranch /\ fired' = fired))
           /\ (timers' < timers =>
                  (lastCheck'.ran /\ lastCheck'.head = head' /\ head' = head))
           /\ ((lastCheck' # lastCheck /\ timers' = timers) =>
                  (lastCheck'.ran /\ lastCheck'.head = head)) ]_vars
    /\ \A hb \in SettledHeads :
          (timers > 0 /\ [](head = hb[1])) ~> Holds(hb[2])

C28_Witness ==
    /\ timers = 0
    /\ lastCheck.ran
    /\ lastCheck.head = HeadFile(Line(RefPrefix \o BranchFeatureX))
    /\ lastCheck.stored = BranchMain
    /\ fired = <<BranchFeatureX>>
    /\ currentBranch = BranchFeatureX

---------------------------------------------------------------------------
(* Properties of a result that carries an error *)

---------------------------------------------------------------------------
(* Properties of the commands *)

RunIds == 1..Len(runs)

\* the operation that the run awaited failed: the check gave a result with
\* an errors entry, or the clean install rejected
OperationFailed(r) ==
    \/ r.res # <<>> /\ r.res[1].errors # <<>>
    \/ r.error # ""

\* the run showed an error message and wrote its error to the log
ErrorReported(r) ==
    \E k \in 1..Len(r.shown) :
        /\ r.shown[k][1] = "error"
        /\ Len(r.shown[k][2]) = 2
        /\ \E l \in 1..Len(r.logged) :
              r.logged[l] = <<"Error: ", r.shown[k][2][2]>>

\* C22: no command lets a failure escape, and a command whose check,
\* detection or clean install failed ends after showing an error message
\* and writing it to the log.
C22_FailuresReported ==
    \A i \in RunIds :
        /\ runs[i].at # "rejected"
        /\ (runs[i].at = "returned" /\ OperationFailed(runs[i]))
              => ErrorReported(runs[i])

\* C26: a check that a change of package.json or of a lock file started
\* was started while autoCheckOnFileChange was enabled.
C26_FileCheckOnlyWhenEnabled ==
    \A i \in RunIds : runs[i].trigger = "file" => runs[i].setting

\* C27: a clean install that checkDependencies (the command) awaits exists
\* only if the check gave isValid = false and the answer to the warning
\* was 'Clean Install'; a valid result, 'Ignore' and a dismissed warning
\* start none.
C27_InstallOnlyOnRequest ==
    /\ \A j \in RunIds :
          runs[j].parent # 0 =>
              LET p == runs[runs[j].parent]
              IN  /\ runs[j].cmd = CmdInstall
                  /\ p.cmd = CmdCheck
                  /\ p.res # <<>>
                  /\ ~p.res[1].isValid
                  /\ p.action = "Clean Install"
    /\ \A i \in RunIds :
          (/\ runs[i].cmd = CmdCheck
           /\ \/ runs[i].res # <<>> /\ runs[i].res[1].isValid
              \/ runs[i].action \in {"Ignore", "undefined"})
              => \A j \in RunIds : runs[j].parent # i

\* a check found a package missing, the user chose 'Clean Install', and
\* the install has ended
C27_Witness ==
    \E j \in RunIds :
        /\ runs[j].parent # 0
        /\ runs[j].at = "returned"
        /\ runs[runs[j].parent].at = "returned"
        /\ runs[runs[j].parent].action = "Clean Install"

\* C29: while a check is in progress no other check and no clean install
\* is in progress, the clean install that the check itself awaits apart.
C29_NoParallelOperation ==
    \A i, j \in RunIds :
        (/\ i # j
         /\ runs[i].cmd = CmdCheck
         /\ InProgress(runs[i])
         /\ runs[j].cmd \in {CmdCheck, CmdInstall}
         /\ InProgress(runs[j]))
            => runs[j].parent = i

---------------------------------------------------------------------------
(* Properties of the disposed monitor *)

\* C31: once dispose() has been called, no step changes the stored branch
\* or passes a name to the emitter: not a change of .git/HEAD, not a
\* change of a branch ref, not a timer that was pending at the call.
C31_DisposedIsInert ==
    [][disposed => (currentBranch' = currentBranch /\ fired' = fired)]_vars

=============================================================================
